---------------------------- MODULE Spec2Model ----------------------------
(***************************************************************************)
(* Model of the masternode budget manager of src/src/masternode-budget.cpp *)
(* (CBudgetManager, CBudgetProposal, CFinalizedBudget and their votes).    *)
(*                                                                         *)
(* Conventions                                                             *)
(*  - amounts are in whole COIN (the code's CAmount is in 1e-8 COIN; every *)
(*    amount the model uses is a multiple of COIN);                        *)
(*  - times are in seconds, heights in blocks, both as in the code;        *)
(*  - a uint256 hash is a small positive integer, 0 is the null hash, and  *)
(*    uint256 comparison is integer comparison;                            *)
(*  - a std::map is a function whose DOMAIN is its key set.                *)
(***************************************************************************)
EXTENDS Integers, Sequences, FiniteSets, TLC

VARIABLES
    mapProposals,                   \* CBudgetManager::mapProposals
    mapSeenProposals,               \* keys of CBudgetManager::mapSeenProposals
    vecImmatureProposals,           \* CBudgetManager::vecImmatureProposals
    mapFinalizedBudgets,            \* CBudgetManager::mapFinalizedBudgets
    mapSeenFinalizedBudgets,        \* keys of CBudgetManager::mapSeenFinalizedBudgets
    vecImmatureFinalizedBudgets,    \* CBudgetManager::vecImmatureFinalizedBudgets
    mapSeenProposalVotes,           \* keys of CBudgetManager::mapSeenProposalVotes
    mapSeenFinalizedBudgetVotes,    \* keys of CBudgetManager::mapSeenFinalizedBudgetVotes
    mapOrphanProposalVotes,         \* CBudgetManager::mapOrphanProposalVotes
    mapOrphanFinalizedBudgetVotes,  \* CBudgetManager::mapOrphanFinalizedBudgetVotes
    askedForSourceProposalOrBudget, \* the global askedForSourceProposalOrBudget
    mapCollateralTxids,             \* CBudgetManager::mapCollateralTxids
    nSubmittedHeight,               \* the static nSubmittedHeight of SubmitFinalBudget
    nBestHeight,                    \* CBudgetManager::nBestHeight
    now,                            \* GetTime() and GetAdjustedTime()
    mnCount,                        \* mnodeman.CountEnabled(ActiveProtocol())
    mnKnown,                        \* the masternodes mnodeman.Find finds
    fSynced,                        \* masternodeSync.IsSynced()
    txConf,                         \* per collateral txid: -1 unknown, else its depth
    txTime,                         \* per collateral txid: the time of its block
    ret,                            \* what the last operation was given and returned
    removedDownvoted,               \* history: the proposals CheckAndRemove dropped as
                                    \* heavily downvoted
    paidChecked,                    \* history: the pairs <<budget, proposal>> for which
                                    \* CFinalizedBudget::IsTransactionValid called
                                    \* IsPaidAlready
    pushedAt,                       \* history kept by BudgetVoteStep and FinalBudgetVoteStep:
                                    \* per target hash, the times at which a BUDGETVOTESYNC
                                    \* for it was pushed to a peer, in order
    parkedVotes,                    \* history kept by the same steps: the votes UpdateProposal
                                    \* and UpdateFinalizedBudget put in an orphan map
    autoChecked,                    \* history kept by MasternodeTick: the finalized budgets for
                                    \* which CheckAndVote went past its early returns
    fulfilledRequest,               \* the peers with HasFulfilledRequest("budgetvotesync")
    fullSyncRequests,               \* history: per peer, the number of BUDGETVOTESYNC
                                    \* messages with a null hash received from it
    pc,                             \* per thread: the call it runs and where it stands in it
    held,                           \* per thread: the engine locks it holds, in the order
                                    \* it took them
    m_list,                         \* MainSignalsInstance::m_list
    m_map,                          \* MainSignalsInstance::m_map: its keys, each mapped to
                                    \* the entry of m_list whose callbacks it points to
    executing,                      \* per thread: where its call of Iterate stands
    unregistered                    \* history: the interfaces whose last call was
                                    \* UnregisterValidationInterface, which has returned

propVars == <<mapProposals, mapSeenProposals, vecImmatureProposals>>
finVars == <<mapFinalizedBudgets, mapSeenFinalizedBudgets, vecImmatureFinalizedBudgets>>
voteVars == <<mapSeenProposalVotes, mapSeenFinalizedBudgetVotes, mapOrphanProposalVotes,
              mapOrphanFinalizedBudgetVotes, askedForSourceProposalOrBudget>>
submitVars == <<mapCollateralTxids, nSubmittedHeight>>
chainVars == <<txConf, txTime>>
mnVars == <<mnCount, mnKnown, fSynced>>

histVars == <<removedDownvoted, paidChecked, pushedAt, parkedVotes, autoChecked>>
peerVars == <<fulfilledRequest, fullSyncRequests>>
threadVars == <<pc, held>>
signalVars == <<m_list, m_map, executing, unregistered>>

vars == <<propVars, finVars, voteVars, submitVars, nBestHeight, now, mnVars, chainVars, ret,
          histVars, peerVars, threadVars, signalVars>>

-----------------------------------------------------------------------------
(* Bounds of the model *)

NumMasternodes == 2
MaxNowTicks == 1
MaxVoteTicks == 3

(* Program constants *)

\* BUDGET_VOTE_UPDATE_MIN, declared in masternode-budget.h
BUDGET_VOTE_UPDATE_MIN == 60 * 60
\* the "too far ahead" allowance of AddOrUpdateVote: GetTime() + (60 * 60)
VoteFutureLimit == 60 * 60

Masternodes == 1..NumMasternodes
VoteDirections == {"ABSTAIN", "YES", "NO"}

\* the grid on which the model draws vote times and moves the clock
TimeStep == BUDGET_VOTE_UPDATE_MIN \div 2
NowTimes == {k * TimeStep : k \in 0..MaxNowTicks}
VoteTimes == {k * TimeStep : k \in 0..MaxVoteTicks}

-----------------------------------------------------------------------------
(* Helpers for std::map *)

Put(f, k, v) == [x \in (DOMAIN f) \cup {k} |-> IF x = k THEN v ELSE f[x]]
Restrict(f, S) == [x \in S |-> f[x]]
EmptyMap == <<>>

-----------------------------------------------------------------------------
(* Votes *)

\* CBudgetVote: vin, nProposalHash, nVote, nTime, fValid
BudgetVote(mn, hash, dir, t) ==
    [vin |-> mn, nProposalHash |-> hash, nVote |-> dir, nTime |-> t, fValid |-> TRUE]

\* CFinalizedBudgetVote: vin, nBudgetHash, nTime, fValid
FinalizedBudgetVote(mn, hash, t) ==
    [vin |-> mn, nBudgetHash |-> hash, nTime |-> t, fValid |-> TRUE]

\* A mutation of AddOrUpdateVote: the two checks against the stored vote are lost
AddOrUpdateVote_NoStoredCheck(prop, vote, time) ==
    IF vote.nTime > time + VoteFutureLimit
    THEN [ok |-> FALSE, obj |-> prop]
    ELSE [ok |-> TRUE, obj |-> [prop EXCEPT !.mapVotes = Put(@, vote.vin, vote)]]

\* A mutation of AddOrUpdateVote: the vote is stored before the future check
AddOrUpdateVote_StoreThenCheck(prop, vote, time) ==
    IF vote.vin \in DOMAIN prop.mapVotes /\ prop.mapVotes[vote.vin].nTime > vote.nTime
    THEN [ok |-> FALSE, obj |-> prop]
    ELSE IF vote.vin \in DOMAIN prop.mapVotes
            /\ vote.nTime - prop.mapVotes[vote.vin].nTime < BUDGET_VOTE_UPDATE_MIN
    THEN [ok |-> FALSE, obj |-> prop]
    ELSE [ok |-> ~(vote.nTime > time + VoteFutureLimit),
          obj |-> [prop EXCEPT !.mapVotes = Put(@, vote.vin, vote)]]

\* CBudgetProposal::AddOrUpdateVote; the key is vote.GetVin().prevout.GetHash()
CBudgetProposal_AddOrUpdateVote(prop, vote, time) ==
    IF vote.vin \in DOMAIN prop.mapVotes /\ prop.mapVotes[vote.vin].nTime > vote.nTime
    THEN [ok |-> FALSE, obj |-> prop]      \* new vote older than existing vote
    ELSE IF vote.vin \in DOMAIN prop.mapVotes
            /\ vote.nTime - prop.mapVotes[vote.vin].nTime < BUDGET_VOTE_UPDATE_MIN
    THEN [ok |-> FALSE, obj |-> prop]      \* time between votes is too soon
    ELSE IF vote.nTime > time + VoteFutureLimit
    THEN [ok |-> FALSE, obj |-> prop]      \* too far ahead of current time
    ELSE [ok |-> TRUE, obj |-> [prop EXCEPT !.mapVotes = Put(@, vote.vin, vote)]]

\* CFinalizedBudget::AddOrUpdateVote
CFinalizedBudget_AddOrUpdateVote(fb, vote, time) ==
    IF vote.vin \in DOMAIN fb.mapVotes /\ fb.mapVotes[vote.vin].nTime > vote.nTime
    THEN [ok |-> FALSE, obj |-> fb]
    ELSE IF vote.vin \in DOMAIN fb.mapVotes
            /\ vote.nTime - fb.mapVotes[vote.vin].nTime < BUDGET_VOTE_UPDATE_MIN
    THEN [ok |-> FALSE, obj |-> fb]
    ELSE IF vote.nTime > time + VoteFutureLimit
    THEN [ok |-> FALSE, obj |-> fb]
    ELSE [ok |-> TRUE, obj |-> [fb EXCEPT !.mapVotes = Put(@, vote.vin, vote)]]

-----------------------------------------------------------------------------
(* Consensus parameters (chainparams.cpp, main network) and amounts *)

NetworkID == "main"
\* Params().GetConsensus().nBudgetCycleBlocks
nBudgetCycleBlocks == 43200
\* Params().GetConsensus().nBudgetFeeConfirmations
nBudgetFeeConfirmations == 6
\* Params().GetConsensus().nProposalEstablishmentTime
nProposalEstablishmentTime == 60 * 60 * 24
\* activation heights of UPGRADE_POS and UPGRADE_ZC_V2
PosActivationHeight == 259201
ZcV2ActivationHeight == 1153160
\* PROPOSAL_FEE_TX and BUDGET_FEE_TX of masternode-budget.h, in COIN
PROPOSAL_FEE_TX == 50
BUDGET_FEE_TX == 5
\* the minimum amount of a proposal, 10 * COIN
MinProposalAmount == 10

NetworkUpgradeActive(nHeight, activation) == nHeight >= activation

\* the nSubsidy chain of CBudgetManager::GetTotalBudget, in COIN
BudgetSubsidy(nHeight) ==
    LET isPoSActive == NetworkUpgradeActive(nHeight, PosActivationHeight) IN
    IF nHeight >= 151200 /\ ~isPoSActive THEN 50
    ELSE IF isPoSActive /\ nHeight <= 302399 THEN 50
    ELSE IF nHeight <= 345599 /\ nHeight >= 302400 THEN 45
    ELSE IF nHeight <= 388799 /\ nHeight >= 345600 THEN 40
    ELSE IF nHeight <= 431999 /\ nHeight >= 388800 THEN 35
    ELSE IF nHeight <= 475199 /\ nHeight >= 432000 THEN 30
    ELSE IF nHeight <= 518399 /\ nHeight >= 475200 THEN 25
    ELSE IF nHeight <= 561599 /\ nHeight >= 518400 THEN 20
    ELSE IF nHeight <= 604799 /\ nHeight >= 561600 THEN 15
    ELSE IF nHeight <= 647999 /\ nHeight >= 604800 THEN 10
    ELSE IF NetworkUpgradeActive(nHeight, ZcV2ActivationHeight) THEN 10
    ELSE 5

\* CBudgetManager::GetTotalBudget, in COIN: ((nSubsidy / 100) * 10) * 1440 * 30 with
\* nSubsidy = k * COIN is k * 4320 COIN
GetTotalBudget(nHeight) ==
    IF NetworkID = "test" THEN ((500 * 10) \div 100) * 146
    ELSE IF nHeight <= 172800 THEN 648000
    ELSE ((BudgetSubsidy(nHeight) * 10 * 1440 * 30) \div 100)

-----------------------------------------------------------------------------
(* Scripts and the collateral transactions of the chain *)

P2PKH(id) == [type |-> "P2PKH", id |-> id]
OpReturn(hash) == [type |-> "OP_RETURN", id |-> hash]
P2SH(id) == [type |-> "P2SH", id |-> id]
NullScript == [type |-> "NULL", id |-> 0]

IsNormalPaymentScript(script) == script.type = "P2PKH"
IsUnspendable(script) == script.type = "OP_RETURN"
IsPayToScriptHash(script) == script.type = "P2SH"

TxOut(script, nValue) == [scriptPubKey |-> script, nValue |-> nValue]

\* A transaction GetTransaction does not find
NoTx == [found |-> FALSE, nLockTime |-> 0, vout |-> <<>>]
Tx(nLockTime, vout) == [found |-> TRUE, nLockTime |-> nLockTime, vout |-> vout]

\* GetIXConfirmations: no SwiftX lock is held on a collateral transaction
GetIXConfirmations(txid) == 0

\* A mutation of IsBudgetCollateralValid: the fee output must exceed the fee
IsBudgetCollateralValidTx_AboveFee(tx, depth, blockTime, nExpectedHash, nTimeIn, fBudgetFinalization, ix) ==
    LET fee == IF fBudgetFinalization THEN BUDGET_FEE_TX ELSE PROPOSAL_FEE_TX
        foundOpReturn == \E i \in 1..Len(tx.vout) :
                            /\ tx.vout[i].scriptPubKey = OpReturn(nExpectedHash)
                            /\ tx.vout[i].nValue > fee
        conf == ix + (IF depth >= 1 THEN depth ELSE 0)
    IN
    IF ~tx.found \/ Len(tx.vout) < 1 \/ tx.nLockTime # 0 \/ ~foundOpReturn
       \/ \E i \in 1..Len(tx.vout) :
             ~IsNormalPaymentScript(tx.vout[i].scriptPubKey) /\ ~IsUnspendable(tx.vout[i].scriptPubKey)
    THEN [ok |-> FALSE, nTime |-> nTimeIn, nConf |-> 0]
    ELSE [ok |-> conf >= nBudgetFeeConfirmations,
          nTime |-> IF depth >= 1 THEN blockTime ELSE nTimeIn, nConf |-> conf]

\* IsBudgetCollateralValid on what the chain holds for nTxCollateralHash: the
\* transaction (or NoTx), the depth of its block in the active chain (0: in no block
\* of the active chain) and that block's time.  nConf is the caller's variable, which
\* every caller sets to 0 before the call and which is written only past the checks.
IsBudgetCollateralValidTx(tx, depth, blockTime, nExpectedHash, nTimeIn, fBudgetFinalization, ix) ==
    LET findScript == OpReturn(nExpectedHash)
        fee == IF fBudgetFinalization THEN BUDGET_FEE_TX ELSE PROPOSAL_FEE_TX
        foundOpReturn == \E i \in 1..Len(tx.vout) :
                            /\ tx.vout[i].scriptPubKey = findScript
                            /\ tx.vout[i].nValue >= fee
    IN
    IF ~tx.found THEN [ok |-> FALSE, nTime |-> nTimeIn, nConf |-> 0]
    ELSE IF Len(tx.vout) < 1 THEN [ok |-> FALSE, nTime |-> nTimeIn, nConf |-> 0]
    ELSE IF tx.nLockTime # 0 THEN [ok |-> FALSE, nTime |-> nTimeIn, nConf |-> 0]
    ELSE IF \E i \in 1..Len(tx.vout) :
               ~IsNormalPaymentScript(tx.vout[i].scriptPubKey) /\ ~IsUnspendable(tx.vout[i].scriptPubKey)
    THEN [ok |-> FALSE, nTime |-> nTimeIn, nConf |-> 0]
    ELSE IF ~foundOpReturn THEN [ok |-> FALSE, nTime |-> nTimeIn, nConf |-> 0]
    ELSE LET conf == ix + (IF depth >= 1 THEN depth ELSE 0)
         IN [ok |-> conf >= nBudgetFeeConfirmations,
             nTime |-> IF depth >= 1 THEN blockTime ELSE nTimeIn,
             nConf |-> conf]

-----------------------------------------------------------------------------
(* CBudgetProposal *)

\* The fields of a CBudgetProposal.  nHash is GetHash(): the hash of the name, the URL,
\* nBlockStart, nBlockEnd, nAmount and the address; two proposals of the model with
\* different nHash differ at least in their name.
Proposal(nHash, nBlockStart, nBlockEnd, nAmount, address, nFeeTXHash, nTime) ==
    [nHash |-> nHash, nBlockStart |-> nBlockStart, nBlockEnd |-> nBlockEnd,
     nAmount |-> nAmount, address |-> address, nFeeTXHash |-> nFeeTXHash,
     nTime |-> nTime, mapVotes |-> EmptyMap, fValid |-> TRUE, nAlloted |-> 0]

\* CBudgetProposal::GetVoteCount
Proposal_GetVoteCount(prop, vd) ==
    Cardinality({mn \in DOMAIN prop.mapVotes :
                    prop.mapVotes[mn].nVote = vd /\ prop.mapVotes[mn].fValid})

GetYeas(prop) == Proposal_GetVoteCount(prop, "YES")
GetNays(prop) == Proposal_GetVoteCount(prop, "NO")
GetAbstains(prop) == Proposal_GetVoteCount(prop, "ABSTAIN")

\* A mutation of IsHeavilyDownvoted: the margin is taken on the yes side
IsHeavilyDownvoted_Swapped(prop, enabled) ==
    GetYeas(prop) - GetNays(prop) > enabled \div 10

\* CBudgetProposal::IsHeavilyDownvoted; enabled is mnodeman.CountEnabled(ActiveProtocol())
IsHeavilyDownvoted(prop, enabled) ==
    GetNays(prop) - GetYeas(prop) > enabled \div 10

\* CBudgetProposal::GetBlockCycle
GetBlockCycle(nHeight) == nHeight - (nHeight % nBudgetCycleBlocks)
GetBlockStartCycle(prop) == GetBlockCycle(prop.nBlockStart)
\* CBudgetProposal::GetBlockEndCycle returns nBlockEnd as it is
GetBlockEndCycle(prop) == prop.nBlockEnd
\* CBudgetProposal::GetTotalPaymentCount
GetTotalPaymentCount(prop) ==
    (GetBlockEndCycle(prop) - GetBlockStartCycle(prop)) \div nBudgetCycleBlocks

\* CBudgetProposal::CheckStartEnd
CheckStartEnd(prop) ==
    IF prop.nBlockStart < 0 THEN FALSE
    ELSE IF prop.nBlockEnd < prop.nBlockStart THEN FALSE
    ELSE prop.nBlockEnd = prop.nBlockStart + (nBudgetCycleBlocks + 1) * GetTotalPaymentCount(prop)

\* CBudgetProposal::CheckAmount
CheckAmount(prop, nTotalBudget) ==
    IF prop.nAmount < MinProposalAmount THEN FALSE
    ELSE IF prop.nAmount > nTotalBudget THEN FALSE
    ELSE TRUE

\* CBudgetProposal::CheckAddress
CheckAddress(prop) ==
    IF prop.address = NullScript THEN FALSE
    ELSE IF IsPayToScriptHash(prop.address) THEN FALSE
    ELSE TRUE

\* CBudgetProposal::IsWellFormed
IsWellFormed(prop, nTotalBudget) ==
    CheckStartEnd(prop) /\ CheckAmount(prop, nTotalBudget) /\ CheckAddress(prop)

\* CBudgetProposal::IsExpired
IsExpired(prop, nCurrentHeight) == prop.nBlockEnd < nCurrentHeight

\* A mutation of IsEstablished: the comparison is not strict
IsEstablished_NotStrict(prop, time) == prop.nTime <= time - nProposalEstablishmentTime

\* CBudgetProposal::IsEstablished; time is GetAdjustedTime()
IsEstablished(prop, time) == prop.nTime < time - nProposalEstablishmentTime

\* A mutation of IsPassing: the margin is not strict
IsPassing_NotStrict(prop, nBlockStartBudget, nBlockEndBudget, count, time) ==
    IF ~prop.fValid THEN FALSE
    ELSE IF prop.nBlockStart > nBlockStartBudget THEN FALSE
    ELSE IF prop.nBlockEnd < nBlockEndBudget THEN FALSE
    ELSE IF GetYeas(prop) - GetNays(prop) < count \div 10 THEN FALSE
    ELSE IF ~IsEstablished(prop, time) THEN FALSE
    ELSE TRUE

\* CBudgetProposal::IsPassing
IsPassing(prop, nBlockStartBudget, nBlockEndBudget, count, time) ==
    IF ~prop.fValid THEN FALSE
    ELSE IF prop.nBlockStart > nBlockStartBudget THEN FALSE
    ELSE IF prop.nBlockEnd < nBlockEndBudget THEN FALSE
    ELSE IF GetYeas(prop) - GetNays(prop) <= count \div 10 THEN FALSE
    ELSE IF ~IsEstablished(prop, time) THEN FALSE
    ELSE TRUE

\* CBudgetProposal::PtrHigherYes: a goes before b
PtrHigherYes(a, b) ==
    LET netYes_a == GetYeas(a) - GetNays(a)
        netYes_b == GetYeas(b) - GetNays(b)
    IN IF netYes_a = netYes_b THEN a.nFeeTXHash > b.nFeeTXHash
       ELSE netYes_a > netYes_b

\* CBudgetProposal::CleanAndRemove: each vote's fValid becomes whether its masternode
\* is in the masternode list; known is the set mnodeman.Find succeeds on
Proposal_CleanAndRemove(prop, known) ==
    [prop EXCEPT !.mapVotes =
        [mn \in DOMAIN prop.mapVotes |-> [prop.mapVotes[mn] EXCEPT !.fValid = (mn \in known)]]]

-----------------------------------------------------------------------------
(* CFinalizedBudget *)

\* CTxBudgetPayment
BudgetPayment(nProposalHash, payee, nAmount) ==
    [nProposalHash |-> nProposalHash, payee |-> payee, nAmount |-> nAmount]

\* The fields of a CFinalizedBudget.  nHash is GetHash(): the hash of the name,
\* nBlockStart and the payments.  mapPayment_History maps a proposal hash to the
\* height it was paid at.
FinalizedBudget(nHash, strBudgetName, nBlockStart, vecBudgetPayments, nFeeTXHash, nTime) ==
    [nHash |-> nHash, strBudgetName |-> strBudgetName, nBlockStart |-> nBlockStart,
     vecBudgetPayments |-> vecBudgetPayments, nFeeTXHash |-> nFeeTXHash, nTime |-> nTime,
     mapVotes |-> EmptyMap, fValid |-> TRUE, fAutoChecked |-> FALSE,
     mapPayment_History |-> EmptyMap]

\* CFinalizedBudget::GetBlockStart and GetBlockEnd (masternode-budget.h)
Budget_GetBlockStart(fb) == fb.nBlockStart
Budget_GetBlockEnd(fb) == fb.nBlockStart + Len(fb.vecBudgetPayments) - 1

\* CFinalizedBudget::GetVoteCount (masternode-budget.h): the size of mapVotes
Budget_GetVoteCount(fb) == Cardinality(DOMAIN fb.mapVotes)

-----------------------------------------------------------------------------
(* What an operation leaves in ret *)

NoVote == [vin |-> 0, nTime |-> 0]
Ret(op, hash, vote, ok, oldTime) ==
    [op |-> op, hash |-> hash, vote |-> vote, ok |-> ok, oldTime |-> oldTime]
NoRet == Ret("none", 0, NoVote, FALSE, -1)

\* the time of the vote stored for vote.vin, -1 when there is none
StoredTime(mapVotes, mn) == IF mn \in DOMAIN mapVotes THEN mapVotes[mn].nTime ELSE -1

-----------------------------------------------------------------------------
(* SpecVote: AddOrUpdateVote on one proposal or one finalized budget.  The votes  *)
(* carry any time of VoteTimes and the clock moves on NowTimes.                   *)

VoteTargetProposal ==
    Proposal(1, 2 * nBudgetCycleBlocks, 3 * nBudgetCycleBlocks + 1, MinProposalAmount, P2PKH(1), 1, 0)
VoteTargetBudget ==
    FinalizedBudget(101, "main", 2 * nBudgetCycleBlocks,
                    <<BudgetPayment(1, P2PKH(1), MinProposalAmount)>>, 101, 0)

IdleVotes ==
    /\ mapSeenProposalVotes = {}
    /\ mapSeenFinalizedBudgetVotes = {}
    /\ mapOrphanProposalVotes = EmptyMap
    /\ mapOrphanFinalizedBudgetVotes = EmptyMap
    /\ askedForSourceProposalOrBudget = EmptyMap

IdleSubmit ==
    /\ mapCollateralTxids = EmptyMap
    /\ nSubmittedHeight = 0

IdleChain ==
    /\ txConf = EmptyMap
    /\ txTime = EmptyMap

IdleHist ==
    /\ removedDownvoted = {} /\ paidChecked = {}
    /\ pushedAt = EmptyMap /\ parkedVotes = {} /\ autoChecked = {}

IdlePeer == fulfilledRequest = {} /\ fullSyncRequests = EmptyMap

\* two of the threads that call into the manager
Threads == {"t1", "t2"}

\* a thread outside the manager.  at is the statement the thread is about to execute,
\* kind tells proposals from finalized budgets, vin, nHash, nVote and nTime are the vote
\* of a peer's message, todo the keys a loop still has to visit, caller the caller of
\* UpdateProposal or UpdateFinalizedBudget.
Outside ==
    [at |-> "outside", kind |-> "none", vin |-> 0, nHash |-> 0, nVote |-> "none",
     nTime |-> 0, fromPeer |-> FALSE, todo |-> <<>>, caller |-> "none"]

\* no thread is in a call of the manager
IdleThreads == pc = [t \in Threads |-> Outside] /\ held = [t \in Threads |-> <<>>]

\* no validation interface is registered and no signal is being dispatched
NotIterating == [it |-> "none", since |-> {}]
IdleSignals ==
    /\ m_list = <<>>
    /\ m_map = {}
    /\ executing = [t \in Threads |-> NotIterating]
    /\ unregistered = {}

InitVote ==
    /\ \/ mapProposals = (1 :> VoteTargetProposal) /\ mapFinalizedBudgets = EmptyMap
       \/ mapProposals = EmptyMap /\ mapFinalizedBudgets = (101 :> VoteTargetBudget)
    /\ mapSeenProposals = DOMAIN mapProposals
    /\ mapSeenFinalizedBudgets = DOMAIN mapFinalizedBudgets
    /\ vecImmatureProposals = <<>>
    /\ vecImmatureFinalizedBudgets = <<>>
    /\ IdleVotes /\ IdleSubmit /\ IdleChain /\ IdleHist /\ IdlePeer /\ IdleThreads /\ IdleSignals
    /\ nBestHeight = nBudgetCycleBlocks
    /\ now = 0
    /\ mnCount = NumMasternodes /\ mnKnown = Masternodes /\ fSynced = TRUE
    /\ ret = NoRet

\* mapProposals[hash].AddOrUpdateVote(vote, strError)
VoteProposalStep ==
    \E hash \in DOMAIN mapProposals, mn \in Masternodes, dir \in {"YES", "NO"}, t \in VoteTimes :
        LET vote == BudgetVote(mn, hash, dir, t)
            r == CBudgetProposal_AddOrUpdateVote(mapProposals[hash], vote, now)
        IN /\ mapProposals' = [mapProposals EXCEPT ![hash] = r.obj]
           /\ ret' = Ret("AddOrUpdateVote", hash, vote, r.ok,
                         StoredTime(mapProposals[hash].mapVotes, mn))
           /\ UNCHANGED <<mapSeenProposals, vecImmatureProposals, finVars, voteVars,
                          submitVars, nBestHeight, now, mnVars, chainVars, histVars, peerVars, threadVars, signalVars>>

\* mapFinalizedBudgets[hash].AddOrUpdateVote(vote, strError)
VoteBudgetStep ==
    \E hash \in DOMAIN mapFinalizedBudgets, mn \in Masternodes, t \in VoteTimes :
        LET vote == FinalizedBudgetVote(mn, hash, t)
            r == CFinalizedBudget_AddOrUpdateVote(mapFinalizedBudgets[hash], vote, now)
        IN /\ mapFinalizedBudgets' = [mapFinalizedBudgets EXCEPT ![hash] = r.obj]
           /\ ret' = Ret("AddOrUpdateVote", hash, vote, r.ok,
                         StoredTime(mapFinalizedBudgets[hash].mapVotes, mn))
           /\ UNCHANGED <<mapSeenFinalizedBudgets, vecImmatureFinalizedBudgets, propVars,
                          voteVars, submitVars, nBestHeight, now, mnVars, chainVars, histVars, peerVars, threadVars, signalVars>>

\* the clock moves by one step of the grid
ClockStep ==
    /\ now + TimeStep \in NowTimes
    /\ now' = now + TimeStep
    /\ ret' = NoRet
    /\ UNCHANGED <<propVars, finVars, voteVars, submitVars, nBestHeight, mnVars, chainVars, histVars, peerVars, threadVars, signalVars>>

NextVote == VoteProposalStep \/ VoteBudgetStep \/ ClockStep

SpecVote == InitVote /\ [][NextVote]_vars

\* the vote map of the target the last call was made on, in the state before (cur) or
\* after (nxt) the call
VoteMapOf(props, fbs, hash) ==
    IF hash \in DOMAIN props THEN props[hash].mapVotes ELSE fbs[hash].mapVotes

(* C2: for every (voter, target) pair the time of the retained vote never decreases
   and the pair never loses its vote; a call with a vote older than the retained one,
   or newer by less than BUDGET_VOTE_UPDATE_MIN, returns false and keeps the retained
   vote. *)
VoteTimeNeverDecreases ==
    [][/\ \A hash \in DOMAIN mapProposals : \A mn \in DOMAIN mapProposals[hash].mapVotes :
            /\ hash \in DOMAIN mapProposals'
            /\ mn \in DOMAIN mapProposals'[hash].mapVotes
            /\ mapProposals'[hash].mapVotes[mn].nTime >= mapProposals[hash].mapVotes[mn].nTime
       /\ \A hash \in DOMAIN mapFinalizedBudgets : \A mn \in DOMAIN mapFinalizedBudgets[hash].mapVotes :
            /\ hash \in DOMAIN mapFinalizedBudgets'
            /\ mn \in DOMAIN mapFinalizedBudgets'[hash].mapVotes
            /\ mapFinalizedBudgets'[hash].mapVotes[mn].nTime
                  >= mapFinalizedBudgets[hash].mapVotes[mn].nTime
       /\ (ret'.op = "AddOrUpdateVote" /\ ret'.oldTime >= 0
           /\ (ret'.vote.nTime < ret'.oldTime
               \/ ret'.vote.nTime - ret'.oldTime < BUDGET_VOTE_UPDATE_MIN))
          => /\ ~ret'.ok
             /\ VoteMapOf(mapProposals', mapFinalizedBudgets', ret'.hash)[ret'.vote.vin]
                  = VoteMapOf(mapProposals, mapFinalizedBudgets, ret'.hash)[ret'.vote.vin]
      ]_vars

\* C2's case: a vote older than the retained one was just rejected
VoteOlderRejected ==
    /\ ret.op = "AddOrUpdateVote"
    /\ ret.oldTime > 0
    /\ ret.vote.nTime < ret.oldTime
    /\ ~ret.ok

(* C3: AddOrUpdateVote returns false for a vote whose time is <= the stored vote's of
   the same voter, or less than BUDGET_VOTE_UPDATE_MIN after it, or more than one hour
   ahead of GetTime(); a call that returns false leaves the vote map as it was; a call
   that returns true leaves the vote as the voter's entry and every other entry as it
   was. *)
VoteRejectedOrStored ==
    [][ret'.op = "AddOrUpdateVote" =>
        LET before == VoteMapOf(mapProposals, mapFinalizedBudgets, ret'.hash)
            after == VoteMapOf(mapProposals', mapFinalizedBudgets', ret'.hash)
            vote == ret'.vote
        IN /\ ( \/ (vote.vin \in DOMAIN before /\ vote.nTime <= before[vote.vin].nTime)
                \/ (vote.vin \in DOMAIN before
                    /\ vote.nTime - before[vote.vin].nTime < BUDGET_VOTE_UPDATE_MIN)
                \/ vote.nTime > now + 60 * 60 ) => ~ret'.ok
           /\ ~ret'.ok => after = before
           /\ ret'.ok => /\ DOMAIN after = (DOMAIN before) \cup {vote.vin}
                         /\ after[vote.vin] = vote
                         /\ \A mn \in DOMAIN before : mn # vote.vin => after[mn] = before[mn]
      ]_vars

\* C3's case: the stored vote of a voter was just replaced while another voter's
\* vote is stored too
VoteReplaced ==
    /\ ret.op = "AddOrUpdateVote"
    /\ ret.ok
    /\ ret.oldTime >= 0
    /\ Cardinality(DOMAIN VoteMapOf(mapProposals, mapFinalizedBudgets, ret.hash)) > 1


-----------------------------------------------------------------------------
(* CBudgetManager::GetBudget *)

MaxProposals == 3

Range(seq) == {seq[i] : i \in 1..Len(seq)}

\* the orders of the keys of props that std::sort may leave with PtrHigherYes as its
\* comparison: no element is before one that PtrHigherYes puts before it.  Elements
\* that PtrHigherYes orders neither way are left in an order std::sort does not fix.
SortedOrders(props) ==
    {order \in [1..Cardinality(DOMAIN props) -> DOMAIN props] :
        /\ \A i, j \in DOMAIN order : i # j => order[i] # order[j]
        /\ \A i, j \in DOMAIN order : i < j => ~PtrHigherYes(props[order[j]], props[order[i]])}

\* A mutation of the walk of GetBudget: the walk ends at the first proposal that
\* passes and does not fit
RECURSIVE GetBudgetWalk_StopAtFirst(_, _, _, _, _, _, _, _, _, _)
GetBudgetWalk_StopAtFirst(props, order, i, nBudgetAllocated, vRet, nBlockStart, nBlockEnd, count, nTotalBudget, time) ==
    IF i > Len(order) THEN [props |-> props, budget |-> vRet]
    ELSE LET p == props[order[i]] IN
         IF IsPassing(p, nBlockStart, nBlockEnd, count, time)
         THEN IF p.nAmount + nBudgetAllocated <= nTotalBudget
              THEN GetBudgetWalk_StopAtFirst([props EXCEPT ![order[i]].nAlloted = p.nAmount], order, i + 1,
                                 nBudgetAllocated + p.nAmount, Append(vRet, order[i]),
                                 nBlockStart, nBlockEnd, count, nTotalBudget, time)
              ELSE [props |-> [props EXCEPT ![order[i]].nAlloted = 0], budget |-> vRet]
         ELSE GetBudgetWalk_StopAtFirst(props, order, i + 1, nBudgetAllocated, vRet,
                            nBlockStart, nBlockEnd, count, nTotalBudget, time)

\* the loop of GetBudget over vBudgetPorposalsSort, from its i-th element on
RECURSIVE GetBudgetWalk(_, _, _, _, _, _, _, _, _, _)
GetBudgetWalk(props, order, i, nBudgetAllocated, vRet, nBlockStart, nBlockEnd, count, nTotalBudget, time) ==
    IF i > Len(order) THEN [props |-> props, budget |-> vRet]
    ELSE LET p == props[order[i]] IN
         IF IsPassing(p, nBlockStart, nBlockEnd, count, time)
         THEN IF p.nAmount + nBudgetAllocated <= nTotalBudget
              THEN GetBudgetWalk([props EXCEPT ![order[i]].nAlloted = p.nAmount], order, i + 1,
                                 nBudgetAllocated + p.nAmount, Append(vRet, order[i]),
                                 nBlockStart, nBlockEnd, count, nTotalBudget, time)
              ELSE GetBudgetWalk([props EXCEPT ![order[i]].nAlloted = 0], order, i + 1,
                                 nBudgetAllocated, vRet,
                                 nBlockStart, nBlockEnd, count, nTotalBudget, time)
         ELSE GetBudgetWalk(props, order, i + 1, nBudgetAllocated, vRet,
                            nBlockStart, nBlockEnd, count, nTotalBudget, time)

\* every proposal of the map after its CleanAndRemove
CleanedProposals(props, known) ==
    [h \in DOMAIN props |-> Proposal_CleanAndRemove(props[h], known)]

\* A mutation of GetBudget: the total budget is taken at nHeight, not at nBlockStart
GetBudget_TotalAtHeight(props, nHeight, count, known, time, order) ==
    IF nHeight <= 0 THEN [props |-> props, budget |-> <<>>]
    ELSE LET nBlockStart == (nHeight - (nHeight % nBudgetCycleBlocks)) + nBudgetCycleBlocks
             nBlockEnd == nBlockStart + nBudgetCycleBlocks - 1
         IN GetBudgetWalk(CleanedProposals(props, known), order, 1, 0, <<>>,
                          nBlockStart, nBlockEnd, count, GetTotalBudget(nHeight), time)

\* A mutation of GetBudget: the cycle starts at the least multiple of the cycle length
\* that is not below nHeight
GetBudget_CeilingCycle(props, nHeight, count, known, time, order) ==
    IF nHeight <= 0 THEN [props |-> props, budget |-> <<>>]
    ELSE LET nBlockStart == ((nHeight + nBudgetCycleBlocks - 1) \div nBudgetCycleBlocks)
                                * nBudgetCycleBlocks
             nBlockEnd == nBlockStart + nBudgetCycleBlocks - 1
             nTotalBudget == GetTotalBudget(nBlockStart)
         IN GetBudgetWalk(CleanedProposals(props, known), order, 1, 0, <<>>,
                          nBlockStart, nBlockEnd, count, nTotalBudget, time)

\* CBudgetManager::GetBudget with order the outcome of its std::sort, one of
\* SortedOrders(CleanedProposals(props, known)); budget is the returned vector, as
\* proposal hashes
GetBudget(props, nHeight, count, known, time, order) ==
    IF nHeight <= 0 THEN [props |-> props, budget |-> <<>>]
    ELSE LET nBlockStart == (nHeight - (nHeight % nBudgetCycleBlocks)) + nBudgetCycleBlocks
             nBlockEnd == nBlockStart + nBudgetCycleBlocks - 1
             nTotalBudget == GetTotalBudget(nBlockStart)
         IN GetBudgetWalk(CleanedProposals(props, known), order, 1, 0, <<>>,
                          nBlockStart, nBlockEnd, count, nTotalBudget, time)

-----------------------------------------------------------------------------
(* SpecBudget: GetBudget on MaxProposals proposals of drawn amounts and votes, at  *)
(* drawn heights.                                                                 *)

BudgetAmounts == {400000, 216000}
BudgetHeights == {0, 172799, 172800, 216000}

\* the proposals of SpecBudget start at the first cycle and end five payments later
BudgetProposalStart == nBudgetCycleBlocks
BudgetProposalEnd == BudgetProposalStart + (nBudgetCycleBlocks + 1) * 5

\* the collateral txid of proposal i: its own, or one transaction for proposals 1 and 2
BudgetFeeTx(i, shared) == IF shared /\ i <= 2 THEN 11 ELSE 10 + i

\* the first k masternodes vote yes on proposal hash
YesVotes(hash, k) == [mn \in 1..k |-> BudgetVote(mn, hash, "YES", 0)]

InitBudget ==
    /\ \E amt \in [1..MaxProposals -> BudgetAmounts],
          yes \in [1..MaxProposals -> 0..NumMasternodes],
          shared \in BOOLEAN :
          mapProposals =
             [i \in 1..MaxProposals |->
                [Proposal(i, BudgetProposalStart, BudgetProposalEnd, amt[i], P2PKH(i),
                          BudgetFeeTx(i, shared), 0)
                   EXCEPT !.mapVotes = YesVotes(i, yes[i])]]
    /\ mapSeenProposals = DOMAIN mapProposals
    /\ vecImmatureProposals = <<>>
    /\ mapFinalizedBudgets = EmptyMap
    /\ mapSeenFinalizedBudgets = {}
    /\ vecImmatureFinalizedBudgets = <<>>
    /\ IdleVotes /\ IdleSubmit /\ IdleChain /\ IdleHist /\ IdlePeer /\ IdleThreads /\ IdleSignals
    /\ nBestHeight \in BudgetHeights
    /\ now = nProposalEstablishmentTime + TimeStep
    /\ mnCount = NumMasternodes
    /\ mnKnown \in {Masternodes, Masternodes \ {1}}
    /\ fSynced = TRUE
    /\ ret = NoRet

GetBudgetStep ==
    \E order \in SortedOrders(CleanedProposals(mapProposals, mnKnown)) :
        LET r == GetBudget(mapProposals, nBestHeight, mnCount, mnKnown, now, order)
        IN /\ mapProposals' = r.props
           /\ ret' = [op |-> "GetBudget", nHeight |-> nBestHeight,
                      order |-> order, budget |-> r.budget]
           /\ UNCHANGED <<mapSeenProposals, vecImmatureProposals, finVars, voteVars,
                          submitVars, nBestHeight, now, mnVars, chainVars, histVars, peerVars, threadVars, signalVars>>

\* CBudgetManager::SetBestHeight with a later height
BudgetHeightStep ==
    \E h \in BudgetHeights :
        /\ h > nBestHeight
        /\ nBestHeight' = h
        /\ ret' = NoRet
        /\ UNCHANGED <<propVars, finVars, voteVars, submitVars, now, mnVars, chainVars, histVars, peerVars, threadVars, signalVars>>

NextBudget == GetBudgetStep \/ BudgetHeightStep

SpecBudget == InitBudget /\ [][NextBudget]_vars

RECURSIVE SumAmounts(_, _)
SumAmounts(props, hashes) ==
    IF hashes = <<>> THEN 0
    ELSE props[Head(hashes)].nAmount + SumAmounts(props, Tail(hashes))

\* the next cycle start and the end of that cycle for nHeight
NextCycleStart(nHeight) == (nHeight - (nHeight % nBudgetCycleBlocks)) + nBudgetCycleBlocks
NextCycleEnd(nHeight) == NextCycleStart(nHeight) + nBudgetCycleBlocks - 1

(* C4: the amounts of the proposals GetBudget returns add up to no more than the
   total budget at the next cycle start, GetTotalBudget(nBlockStart), at every height. *)
BudgetWithinTotal ==
    ret.op = "GetBudget" =>
        SumAmounts(mapProposals, ret.budget) <= GetTotalBudget(NextCycleStart(ret.nHeight))

\* C4's case: the returned proposals take the whole budget of a cycle whose budget is
\* below the budget at the current height
BudgetTotalReached ==
    /\ ret.op = "GetBudget"
    /\ ret.budget # <<>>
    /\ SumAmounts(mapProposals, ret.budget) = GetTotalBudget(NextCycleStart(ret.nHeight))
    /\ GetTotalBudget(NextCycleStart(ret.nHeight)) < GetTotalBudget(ret.nHeight)


\* the position of hash h in the sequence seq of distinct hashes
IndexOf(seq, h) == CHOOSE i \in 1..Len(seq) : seq[i] = h

(* C5: GetBudget walks the proposals in the order PtrHigherYes sorts them in and
   returns, in that order, exactly the proposals that pass for [nBlockStart, nBlockEnd]
   and whose amount, added to the amounts returned before them, does not exceed the
   total budget; a returned proposal is allotted its amount, and a passing proposal
   that does not fit is allotted 0 and does not end the walk. *)
BudgetGreedyWalk ==
    (ret.op = "GetBudget" /\ ret.nHeight > 0) =>
        LET order == ret.order
            budget == ret.budget
            nTotalBudget == GetTotalBudget(NextCycleStart(ret.nHeight))
            Included(i) == order[i] \in Range(budget)
            Passing(i) == IsPassing(mapProposals[order[i]], NextCycleStart(ret.nHeight),
                                    NextCycleEnd(ret.nHeight), mnCount, now)
            AllottedBefore(i) ==
                SumAmounts(mapProposals,
                           SelectSeq(SubSeq(order, 1, i - 1), LAMBDA h : h \in Range(budget)))
        IN /\ Range(order) = DOMAIN mapProposals /\ Len(order) = Cardinality(DOMAIN mapProposals)
           /\ \A i, j \in 1..Len(order) :
                 i < j => ~PtrHigherYes(mapProposals[order[j]], mapProposals[order[i]])
           /\ \A i \in 1..Len(order) :
                 /\ Included(i) <=>
                       /\ Passing(i)
                       /\ mapProposals[order[i]].nAmount + AllottedBefore(i) <= nTotalBudget
                 /\ Included(i) => mapProposals[order[i]].nAlloted = mapProposals[order[i]].nAmount
                 /\ (Passing(i) /\ ~Included(i)) => mapProposals[order[i]].nAlloted = 0
           /\ Range(budget) \subseteq Range(order)
           /\ \A k, l \in 1..Len(budget) :
                 k < l => IndexOf(order, budget[k]) < IndexOf(order, budget[l])

\* C5's case: a passing proposal that does not fit was skipped and a proposal after it
\* in the order was returned
BudgetSkippedThenIncluded ==
    /\ ret.op = "GetBudget"
    /\ \E i, j \in 1..Len(ret.order) :
          /\ i < j
          /\ IsPassing(mapProposals[ret.order[i]], NextCycleStart(ret.nHeight),
                       NextCycleEnd(ret.nHeight), mnCount, now)
          /\ ret.order[i] \notin Range(ret.budget)
          /\ mapProposals[ret.order[i]].nAlloted = 0
          /\ ret.order[j] \in Range(ret.budget)

(* C6: GetBudget is deterministic: whatever order std::sort leaves the proposals in,
   the same proposals, votes, height, total budget and masternode count give the same
   returned list. *)
BudgetDeterministic ==
    ret.op = "GetBudget" =>
        \A order \in SortedOrders(CleanedProposals(mapProposals, mnKnown)) :
            GetBudget(mapProposals, ret.nHeight, mnCount, mnKnown, now, order).budget = ret.budget


-----------------------------------------------------------------------------
(* SpecPassing: IsPassing on one proposal of drawn fields and votes, for drawn     *)
(* cycles, masternode counts and times.                                           *)

\* the values CountEnabled takes: the masternodes of the model, or a network of 10
EnabledCounts == {NumMasternodes, 10}

\* what a masternode left on the proposal: nothing, or a vote and its fValid
VoteMarks == {"none"} \cup ({"YES", "NO"} \X BOOLEAN) \cup {<<"ABSTAIN", TRUE>>}

MarkedVotes(hash, marks) ==
    [mn \in {m \in DOMAIN marks : marks[m] # "none"} |->
        [BudgetVote(mn, hash, marks[mn][1], 0) EXCEPT !.fValid = marks[mn][2]]]

InitPassing ==
    /\ \E start \in {nBudgetCycleBlocks, 2 * nBudgetCycleBlocks, 3 * nBudgetCycleBlocks},
          count \in 1..2, valid \in BOOLEAN, created \in {0, TimeStep},
          marks \in [Masternodes -> VoteMarks] :
          mapProposals =
             (1 :> [Proposal(1, start, start + (nBudgetCycleBlocks + 1) * count,
                             MinProposalAmount, P2PKH(1), 1, created)
                      EXCEPT !.mapVotes = MarkedVotes(1, marks), !.fValid = valid])
    /\ mapSeenProposals = DOMAIN mapProposals
    /\ vecImmatureProposals = <<>>
    /\ mapFinalizedBudgets = EmptyMap
    /\ mapSeenFinalizedBudgets = {}
    /\ vecImmatureFinalizedBudgets = <<>>
    /\ IdleVotes /\ IdleSubmit /\ IdleChain /\ IdleHist /\ IdlePeer /\ IdleThreads /\ IdleSignals
    /\ nBestHeight = nBudgetCycleBlocks
    /\ now = nProposalEstablishmentTime
    /\ mnCount \in EnabledCounts
    /\ mnKnown = Masternodes
    /\ fSynced = TRUE
    /\ ret = NoRet

\* mapProposals[1].IsPassing(nBlockStart, nBlockEnd, mnCount) for a cycle
IsPassingStep ==
    \E nBlockStart \in {2 * nBudgetCycleBlocks, 3 * nBudgetCycleBlocks} :
        LET nBlockEnd == nBlockStart + nBudgetCycleBlocks - 1 IN
        /\ ret' = [op |-> "IsPassing", nBlockStart |-> nBlockStart, nBlockEnd |-> nBlockEnd,
                   value |-> IsPassing(mapProposals[1], nBlockStart, nBlockEnd, mnCount, now)]
        /\ UNCHANGED <<propVars, finVars, voteVars, submitVars, nBestHeight, now, mnVars,
                       chainVars, histVars, peerVars, threadVars, signalVars>>

\* the clock moves by one step of the grid, MaxNowTicks steps at most
PassingClockStep ==
    /\ now + TimeStep <= nProposalEstablishmentTime + MaxNowTicks * TimeStep
    /\ now' = now + TimeStep
    /\ ret' = NoRet
    /\ UNCHANGED <<propVars, finVars, voteVars, submitVars, nBestHeight, mnVars, chainVars, histVars, peerVars, threadVars, signalVars>>

\* mapProposals[1].IsEstablished()
IsEstablishedStep ==
    /\ ret' = [op |-> "IsEstablished", value |-> IsEstablished(mapProposals[1], now)]
    /\ UNCHANGED <<propVars, finVars, voteVars, submitVars, nBestHeight, now, mnVars,
                   chainVars, histVars, peerVars, threadVars, signalVars>>

NextPassing == IsPassingStep \/ PassingClockStep \/ IsEstablishedStep

SpecPassing == InitPassing /\ [][NextPassing]_vars

\* the votes of direction dir on prop whose fValid is set
ValidVotes(prop, dir) ==
    {mn \in DOMAIN prop.mapVotes : prop.mapVotes[mn].nVote = dir /\ prop.mapVotes[mn].fValid}

(* C7: IsPassing(nBlockStart, nBlockEnd, mnCount) is true iff the proposal's fValid is
   set, its nBlockStart <= the cycle's start, its nBlockEnd >= the cycle's end, its
   valid yes votes minus its valid no votes exceed mnCount / 10 (integer division),
   and the proposal is established. *)
PassingIffConditions ==
    ret.op = "IsPassing" =>
        LET prop == mapProposals[1] IN
        ret.value <=>
            /\ prop.fValid
            /\ prop.nBlockStart <= ret.nBlockStart
            /\ prop.nBlockEnd >= ret.nBlockEnd
            /\ Cardinality(ValidVotes(prop, "YES")) - Cardinality(ValidVotes(prop, "NO"))
                  > mnCount \div 10
            /\ IsEstablished(prop, now)

\* C7's case: a proposal passes that holds a no vote whose fValid is not set and that
\* would not pass if that vote were counted
PassingWithInvalidNo ==
    /\ ret.op = "IsPassing"
    /\ ret.value
    /\ \E mn \in DOMAIN mapProposals[1].mapVotes :
          /\ mapProposals[1].mapVotes[mn].nVote = "NO"
          /\ ~mapProposals[1].mapVotes[mn].fValid
    /\ Cardinality(ValidVotes(mapProposals[1], "YES")) - 1 <= mnCount \div 10


-----------------------------------------------------------------------------
(* Payment of a finalized budget *)

\* the keys of a std::map in the order its iteration visits them
RECURSIVE KeysInOrder(_)
KeysInOrder(S) ==
    IF S = {} THEN <<>>
    ELSE LET m == CHOOSE x \in S : \A y \in S : x <= y
         IN <<m>> \o KeysInOrder(S \ {m})

\* A mutation of CFinalizedBudget::IsPaidAlready: a proposal not found is not inserted
Budget_IsPaidAlready_NoInsert(fb, nProposalHash, nBlockHeight) ==
    LET kept == Restrict(fb.mapPayment_History,
                         {h \in DOMAIN fb.mapPayment_History :
                             ~(fb.mapPayment_History[h] < Budget_GetBlockStart(fb)
                               \/ fb.mapPayment_History[h] > Budget_GetBlockEnd(fb))})
    IN IF nProposalHash \notin DOMAIN kept
       THEN [paid |-> FALSE, fb |-> [fb EXCEPT !.mapPayment_History = kept]]
       ELSE [paid |-> TRUE, fb |-> [fb EXCEPT !.mapPayment_History = kept]]

\* CFinalizedBudget::IsPaidAlready: the entries of other cycles leave
\* mapPayment_History, then the proposal is looked up and, when absent, entered
Budget_IsPaidAlready(fb, nProposalHash, nBlockHeight) ==
    LET kept == Restrict(fb.mapPayment_History,
                         {h \in DOMAIN fb.mapPayment_History :
                             ~(fb.mapPayment_History[h] < Budget_GetBlockStart(fb)
                               \/ fb.mapPayment_History[h] > Budget_GetBlockEnd(fb))})
    IN IF nProposalHash \notin DOMAIN kept
       THEN [paid |-> FALSE,
             fb |-> [fb EXCEPT !.mapPayment_History = Put(kept, nProposalHash, nBlockHeight)]]
       ELSE [paid |-> TRUE, fb |-> [fb EXCEPT !.mapPayment_History = kept]]

\* A mutation of CFinalizedBudget::IsTransactionValid: the value of the output is not
\* compared
Budget_IsTransactionValid_ScriptOnly(fb, txNew, nBlockHeight) ==
    IF nBlockHeight > Budget_GetBlockEnd(fb) THEN [status |-> "InValid", fb |-> fb]
    ELSE IF nBlockHeight < fb.nBlockStart THEN [status |-> "InValid", fb |-> fb]
    ELSE LET nCurrentBudgetPayment == nBlockHeight - fb.nBlockStart IN
         IF nCurrentBudgetPayment > Len(fb.vecBudgetPayments) - 1
         THEN [status |-> "InValid", fb |-> fb]
         ELSE LET payment == fb.vecBudgetPayments[nCurrentBudgetPayment + 1]
                  paid == Budget_IsPaidAlready(fb, payment.nProposalHash, nBlockHeight)
              IN IF paid.paid THEN [status |-> "DoublePayment", fb |-> paid.fb]
                 ELSE IF \E i \in 1..Len(txNew) : payment.payee = txNew[i].scriptPubKey
                 THEN [status |-> "Valid", fb |-> paid.fb]
                 ELSE [status |-> "InValid", fb |-> paid.fb]

\* CFinalizedBudget::IsTransactionValid; txNew is the sequence of the outputs
Budget_IsTransactionValid(fb, txNew, nBlockHeight) ==
    IF nBlockHeight > Budget_GetBlockEnd(fb) THEN [status |-> "InValid", fb |-> fb]
    ELSE IF nBlockHeight < fb.nBlockStart THEN [status |-> "InValid", fb |-> fb]
    ELSE LET nCurrentBudgetPayment == nBlockHeight - fb.nBlockStart IN
         IF nCurrentBudgetPayment > Len(fb.vecBudgetPayments) - 1
         THEN [status |-> "InValid", fb |-> fb]
         ELSE LET payment == fb.vecBudgetPayments[nCurrentBudgetPayment + 1]
                  paid == Budget_IsPaidAlready(fb, payment.nProposalHash, nBlockHeight)
              IN IF paid.paid THEN [status |-> "DoublePayment", fb |-> paid.fb]
                 ELSE IF \E i \in 1..Len(txNew) :
                            /\ payment.payee = txNew[i].scriptPubKey
                            /\ payment.nAmount = txNew[i].nValue
                 THEN [status |-> "Valid", fb |-> paid.fb]
                 ELSE [status |-> "InValid", fb |-> paid.fb]

\* CFinalizedBudget::GetPayeeAndAmount
Budget_GetPayeeAndAmount(fb, nBlockHeight) ==
    LET i == nBlockHeight - Budget_GetBlockStart(fb) IN
    IF i < 0 THEN [ok |-> FALSE, payee |-> NullScript, nAmount |-> 0]
    ELSE IF i > Len(fb.vecBudgetPayments) - 1 THEN [ok |-> FALSE, payee |-> NullScript, nAmount |-> 0]
    ELSE [ok |-> TRUE, payee |-> fb.vecBudgetPayments[i + 1].payee,
          nAmount |-> fb.vecBudgetPayments[i + 1].nAmount]

\* A mutation of GetBudgetWithHighestVoteCount: the budget need not cover the height
RECURSIVE HighestVoteWalk_NoRange(_, _, _, _, _)
HighestVoteWalk_NoRange(fbs, keys, chainHeight, highestVoteCount, pHighestBudget) ==
    IF keys = <<>> THEN pHighestBudget
    ELSE LET voteCount == Budget_GetVoteCount(fbs[Head(keys)]) IN
         IF voteCount > highestVoteCount
         THEN HighestVoteWalk_NoRange(fbs, Tail(keys), chainHeight, voteCount, Head(keys))
         ELSE HighestVoteWalk_NoRange(fbs, Tail(keys), chainHeight, highestVoteCount, pHighestBudget)

\* the loop of GetBudgetWithHighestVoteCount over the budgets left to visit
RECURSIVE HighestVoteWalk(_, _, _, _, _)
HighestVoteWalk(fbs, keys, chainHeight, highestVoteCount, pHighestBudget) ==
    IF keys = <<>> THEN pHighestBudget
    ELSE LET pfinalizedBudget == fbs[Head(keys)]
             voteCount == Budget_GetVoteCount(pfinalizedBudget)
         IN IF /\ voteCount > highestVoteCount
               /\ chainHeight >= Budget_GetBlockStart(pfinalizedBudget)
               /\ chainHeight <= Budget_GetBlockEnd(pfinalizedBudget)
            THEN HighestVoteWalk(fbs, Tail(keys), chainHeight, voteCount, Head(keys))
            ELSE HighestVoteWalk(fbs, Tail(keys), chainHeight, highestVoteCount, pHighestBudget)

\* CBudgetManager::GetBudgetWithHighestVoteCount: the hash of the budget, 0 for nullptr
GetBudgetWithHighestVoteCount(fbs, chainHeight) ==
    HighestVoteWalk(fbs, KeysInOrder(DOMAIN fbs), chainHeight, 0, 0)

\* CBudgetManager::GetHighestVoteCount
GetHighestVoteCount(fbs, chainHeight) ==
    LET pbudget == GetBudgetWithHighestVoteCount(fbs, chainHeight) IN
    IF pbudget # 0 THEN Budget_GetVoteCount(fbs[pbudget]) ELSE -1

\* CBudgetManager::GetPayeeAndAmount
GetPayeeAndAmount(fbs, chainHeight) ==
    LET pfb == GetBudgetWithHighestVoteCount(fbs, chainHeight) IN
    IF pfb = 0 THEN [ok |-> FALSE, payee |-> NullScript, nAmount |-> 0]
    ELSE Budget_GetPayeeAndAmount(fbs[pfb], chainHeight)

\* CTxOut(): SetNull leaves nValue -1 and an empty script
NullTxOut == TxOut(NullScript, -1)

\* std::vector::resize on the outputs: the first n outputs, null outputs appended
Resize(vout, n) ==
    [i \in 1..n |-> IF i <= Len(vout) THEN vout[i] ELSE NullTxOut]

\* CBudgetManager::FillBlockPayee on the outputs vout of txNew; chainHeight is
\* GetBestHeight() and blockValue what GetBlockValue(chainHeight + 1) returns.  The
\* proof-of-work branch writes to vout[0], which a coinbase always has.
FillBlockPayee(fbs, chainHeight, vout, fProofOfStake, blockValue) ==
    LET pay == GetPayeeAndAmount(fbs, chainHeight + 1) IN
    IF chainHeight <= 0 THEN vout
    ELSE IF ~pay.ok THEN vout
    ELSE IF fProofOfStake
    THEN Append(vout, TxOut(pay.payee, pay.nAmount))
    ELSE [Resize([vout EXCEPT ![1].nValue = blockValue], 2) EXCEPT
             ![2] = TxOut(pay.payee, pay.nAmount)]

\* A mutation of IsBudgetPaymentBlock: a vote count equal to five percent suffices
IsBudgetPaymentBlock_NotStrict(fbs, nBlockHeight, enabled) ==
    LET nHighestCount == GetHighestVoteCount(fbs, nBlockHeight)
        nFivePercent == enabled \div 20
    IN [value |-> nHighestCount >= nFivePercent,
        nHighestCount |-> nHighestCount, nFivePercent |-> nFivePercent]

\* CBudgetManager::IsBudgetPaymentBlock with its two reference results
IsBudgetPaymentBlock(fbs, nBlockHeight, enabled) ==
    LET nHighestCount == GetHighestVoteCount(fbs, nBlockHeight)
        nFivePercent == enabled \div 20
    IN [value |-> nHighestCount > nFivePercent,
        nHighestCount |-> nHighestCount, nFivePercent |-> nFivePercent]

\* the loop of CBudgetManager::IsTransactionValid over the budgets left to visit;
\* asked lists the budgets whose IsTransactionValid was called, with what each returned
RECURSIVE TransactionValidWalk(_, _, _, _, _, _)
TransactionValidWalk(fbs, keys, txNew, nBlockHeight, nCountThreshold, fThreshold) ==
    IF keys = <<>>
    THEN [status |-> IF fThreshold THEN "InValid" ELSE "VoteThreshold", fbs |-> fbs,
          asked |-> <<>>]
    ELSE IF Budget_GetVoteCount(fbs[Head(keys)]) > nCountThreshold
         THEN LET r == Budget_IsTransactionValid(fbs[Head(keys)], txNew, nBlockHeight)
                  after == [fbs EXCEPT ![Head(keys)] = r.fb]
                  entry == [budget |-> Head(keys), status |-> r.status]
                  rest == TransactionValidWalk(after, Tail(keys), txNew, nBlockHeight,
                                               nCountThreshold, TRUE)
              IN IF r.status = "Valid"
                 THEN [status |-> "Valid", fbs |-> after, asked |-> <<entry>>]
                 ELSE [rest EXCEPT !.asked = <<entry>> \o @]
         ELSE TransactionValidWalk(fbs, Tail(keys), txNew, nBlockHeight,
                                   nCountThreshold, fThreshold)

\* A mutation of IsTransactionValid: the budgets are asked whatever the height
IsTransactionValid_NoBlockCheck(fbs, txNew, nBlockHeight, enabled) ==
    LET pay == IsBudgetPaymentBlock(fbs, nBlockHeight, enabled) IN
    TransactionValidWalk(fbs, KeysInOrder(DOMAIN fbs), txNew, nBlockHeight,
                         pay.nHighestCount - 2 * pay.nFivePercent, FALSE)

\* A mutation of IsTransactionValid: only the budget with the most votes is asked
IsTransactionValid_LeaderOnly(fbs, txNew, nBlockHeight, enabled) ==
    LET pay == IsBudgetPaymentBlock(fbs, nBlockHeight, enabled) IN
    IF ~pay.value THEN [status |-> "InValid", fbs |-> fbs, asked |-> <<>>]
    ELSE TransactionValidWalk(fbs, <<GetBudgetWithHighestVoteCount(fbs, nBlockHeight)>>,
                              txNew, nBlockHeight, pay.nHighestCount - 2 * pay.nFivePercent,
                              FALSE)

\* CBudgetManager::IsTransactionValid
IsTransactionValid(fbs, txNew, nBlockHeight, enabled) ==
    LET pay == IsBudgetPaymentBlock(fbs, nBlockHeight, enabled) IN
    IF ~pay.value THEN [status |-> "InValid", fbs |-> fbs, asked |-> <<>>]
    ELSE TransactionValidWalk(fbs, KeysInOrder(DOMAIN fbs), txNew, nBlockHeight,
                              pay.nHighestCount - 2 * pay.nFivePercent, FALSE)


-----------------------------------------------------------------------------
(* SpecPay: IsBudgetPaymentBlock and IsTransactionValid on two finalized budgets   *)
(* of drawn vote counts, for drawn heights and transactions.                      *)

MaxBudgetVotes == 4

\* the values CountEnabled takes: the masternodes of the model, or a network of 20 or
\* of 100 enabled masternodes
PayEnabledCounts == {NumMasternodes, 20, 100}

PayStart == 2 * nBudgetCycleBlocks
\* the heights of the best block when the payee of the next block is asked for
PayBestHeights == {0, PayStart - 1}
\* what GetBlockValue returns for the next block, in COIN
BlockValues == {225}
PayHeights == {PayStart - 1, PayStart, PayStart + 1, PayStart + 2}

\* budget 101 pays proposal 1 and then proposal 2; budget 102 pays proposal 2 first
PayBudgetA ==
    FinalizedBudget(101, "main", PayStart,
                    <<BudgetPayment(1, P2PKH(1), 100), BudgetPayment(2, P2PKH(2), 200)>>, 101, 0)
PayBudgetB(start) ==
    FinalizedBudget(102, "main", start, <<BudgetPayment(2, P2PKH(2), 200)>>, 102, 0)

\* the first k masternodes vote for budget hash
BudgetVotes(hash, k) == [mn \in 1..k |-> FinalizedBudgetVote(mn, hash, 0)]

\* the outputs of the coinbase or coinstake under check: the stake, then a payment
PayTxs ==
    {<<TxOut(P2PKH(9), 2)>>,
     <<TxOut(P2PKH(9), 2), TxOut(P2PKH(1), 100)>>,
     <<TxOut(P2PKH(9), 2), TxOut(P2PKH(2), 200)>>,
     <<TxOut(P2PKH(9), 2), TxOut(P2PKH(2), 100)>>}

InitPay ==
    /\ \E votesA \in 0..MaxBudgetVotes, votesB \in 0..MaxBudgetVotes,
          startB \in {PayStart, PayStart + nBudgetCycleBlocks} :
          mapFinalizedBudgets =
             (101 :> [PayBudgetA EXCEPT !.mapVotes = BudgetVotes(101, votesA)])
             @@ (102 :> [PayBudgetB(startB) EXCEPT !.mapVotes = BudgetVotes(102, votesB)])
    /\ mapSeenFinalizedBudgets = DOMAIN mapFinalizedBudgets
    /\ vecImmatureFinalizedBudgets = <<>>
    /\ mapProposals = EmptyMap
    /\ mapSeenProposals = {}
    /\ vecImmatureProposals = <<>>
    /\ IdleVotes /\ IdleSubmit /\ IdleChain /\ IdleHist /\ IdlePeer /\ IdleThreads /\ IdleSignals
    /\ nBestHeight \in PayBestHeights
    /\ now = 0
    /\ mnCount \in PayEnabledCounts
    /\ mnKnown = Masternodes
    /\ fSynced = TRUE
    /\ ret = NoRet

\* budget.IsBudgetPaymentBlock(nBlockHeight)
IsBudgetPaymentBlockStep ==
    \E h \in PayHeights :
        /\ ret' = [op |-> "IsBudgetPaymentBlock", nBlockHeight |-> h,
                   value |-> IsBudgetPaymentBlock(mapFinalizedBudgets, h, mnCount).value]
        /\ UNCHANGED <<propVars, finVars, voteVars, submitVars, nBestHeight, now, mnVars,
                       chainVars, histVars, peerVars, threadVars, signalVars>>

\* the budgets of fbs with nBlockStart <= h <= GetBlockEnd()
Covering(fbs, h) ==
    {b \in DOMAIN fbs : fbs[b].nBlockStart <= h
                        /\ h <= fbs[b].nBlockStart + Len(fbs[b].vecBudgetPayments) - 1}

\* the pairs <<budget, proposal>> IsPaidAlready was called for when the budgets of
\* the sequence asked had their IsTransactionValid called at height nBlockHeight
PaidPairs(fbs, asked, nBlockHeight) ==
    {<<asked[i].budget,
       fbs[asked[i].budget].vecBudgetPayments[nBlockHeight - fbs[asked[i].budget].nBlockStart + 1]
          .nProposalHash>> :
        i \in {j \in DOMAIN asked : asked[j].budget \in Covering(fbs, nBlockHeight)}}

\* budget.IsTransactionValid(txNew, nBlockHeight)
IsTransactionValidStep ==
    \E h \in PayHeights, txNew \in PayTxs :
        LET r == IsTransactionValid(mapFinalizedBudgets, txNew, h, mnCount) IN
        /\ mapFinalizedBudgets' = r.fbs
        /\ ret' = [op |-> "IsTransactionValid", nBlockHeight |-> h, txNew |-> txNew,
                   value |-> r.status, asked |-> r.asked]
        /\ paidChecked' = paidChecked \cup PaidPairs(mapFinalizedBudgets, r.asked, h)
        /\ UNCHANGED <<mapSeenFinalizedBudgets, vecImmatureFinalizedBudgets, propVars,
                       voteVars, submitVars, nBestHeight, now, mnVars, chainVars,
                       removedDownvoted, pushedAt, parkedVotes, autoChecked,
                       peerVars, threadVars, signalVars>>

\* budget.FillBlockPayee(txNew, fProofOfStake) on a coinbase or coinstake that holds
\* the outputs of one of PayTxs
FillBlockPayeeStep ==
    \E txNew \in PayTxs, fProofOfStake \in BOOLEAN, blockValue \in BlockValues :
        /\ ret' = [op |-> "FillBlockPayee", txNew |-> txNew, fProofOfStake |-> fProofOfStake,
                   vout |-> FillBlockPayee(mapFinalizedBudgets, nBestHeight, txNew,
                                           fProofOfStake, blockValue)]
        /\ UNCHANGED <<propVars, finVars, voteVars, submitVars, nBestHeight, now, mnVars,
                       chainVars, histVars, peerVars, threadVars, signalVars>>

NextPay == IsBudgetPaymentBlockStep \/ IsTransactionValidStep \/ FillBlockPayeeStep

SpecPay == InitPay /\ [][NextPay]_vars

\* the greatest number of votes among the budgets bs of fbs, for bs not empty
MostVotes(fbs, bs) ==
    CHOOSE v \in {Cardinality(DOMAIN fbs[b].mapVotes) : b \in bs} :
        \A b \in bs : Cardinality(DOMAIN fbs[b].mapVotes) <= v

(* C9: IsBudgetPaymentBlock(h) is true iff some finalized budget of the map covers h
   and the greatest vote count among the covering budgets exceeds
   CountEnabled / 20 (integer division); it is false when no budget covers h. *)
PaymentBlockIffVotes ==
    ret.op = "IsBudgetPaymentBlock" =>
        LET covering == Covering(mapFinalizedBudgets, ret.nBlockHeight) IN
        ret.value <=>
            /\ covering # {}
            /\ MostVotes(mapFinalizedBudgets, covering) > mnCount \div 20

\* C9's case: the height is no payment block although a budget that does not cover it
\* has votes enough
PaymentBlockNotCovered ==
    /\ ret.op = "IsBudgetPaymentBlock"
    /\ ~ret.value
    /\ \E b \in DOMAIN mapFinalizedBudgets :
          /\ b \notin Covering(mapFinalizedBudgets, ret.nBlockHeight)
          /\ Cardinality(DOMAIN mapFinalizedBudgets[b].mapVotes) > mnCount \div 20

(* C10: for a payment block h, IsTransactionValid(txNew, h) returns Valid iff some
   finalized budget whose vote count exceeds nHighestCount - 2 * nFivePercent has
   IsTransactionValid(txNew, h) = Valid; otherwise it returns InValid when some budget
   has a vote count above that threshold and VoteThreshold when none has. *)
TransactionValidBand ==
    [][(ret'.op = "IsTransactionValid"
        /\ IsBudgetPaymentBlock(mapFinalizedBudgets, ret'.nBlockHeight, mnCount).value) =>
        LET h == ret'.nBlockHeight
            highest == MostVotes(mapFinalizedBudgets, Covering(mapFinalizedBudgets, h))
            band == {b \in DOMAIN mapFinalizedBudgets :
                        Cardinality(DOMAIN mapFinalizedBudgets[b].mapVotes)
                           > highest - 2 * (mnCount \div 20)}
        IN ret'.value =
              IF \E b \in band :
                    Budget_IsTransactionValid(mapFinalizedBudgets[b], ret'.txNew, h).status = "Valid"
              THEN "Valid"
              ELSE IF band # {} THEN "InValid" ELSE "VoteThreshold"
      ]_vars

\* C10's case: a payment was accepted that the budget with the most votes does not
\* expect at this height and a budget with fewer votes does
TransactionValidNonLeader ==
    /\ ret.op = "IsTransactionValid"
    /\ ret.value = "Valid"
    /\ LET lead == GetBudgetWithHighestVoteCount(mapFinalizedBudgets, ret.nBlockHeight)
           expected == Budget_GetPayeeAndAmount(mapFinalizedBudgets[lead], ret.nBlockHeight)
       IN /\ lead # 0
          /\ \A i \in 1..Len(ret.txNew) :
                ~(ret.txNew[i].scriptPubKey = expected.payee /\ ret.txNew[i].nValue = expected.nAmount)
          /\ \E b \in DOMAIN mapFinalizedBudgets :
                LET other == Budget_GetPayeeAndAmount(mapFinalizedBudgets[b], ret.nBlockHeight) IN
                /\ Budget_GetVoteCount(mapFinalizedBudgets[b]) < Budget_GetVoteCount(mapFinalizedBudgets[lead])
                /\ other.ok
                /\ \E i \in 1..Len(ret.txNew) :
                      ret.txNew[i].scriptPubKey = other.payee /\ ret.txNew[i].nValue = other.nAmount


(* C11 as stated: when the budget with the most votes among those covering the height
   has no more votes than CountEnabled / 20, IsBudgetPaymentBlock returns false and
   IsTransactionValid returns VoteThreshold. *)
TooFewVotesVoteThreshold ==
    LET covering == Covering(mapFinalizedBudgets, ret.nBlockHeight) IN
    (/\ ret.op \in {"IsBudgetPaymentBlock", "IsTransactionValid"}
     /\ covering # {}
     /\ MostVotes(mapFinalizedBudgets, covering) <= mnCount \div 20) =>
        IF ret.op = "IsBudgetPaymentBlock" THEN ~ret.value ELSE ret.value = "VoteThreshold"

(* C11: when the budget with the most votes among those covering the height has no
   more votes than CountEnabled / 20, IsBudgetPaymentBlock returns false and
   IsTransactionValid returns InValid. *)
TooFewVotesInValid ==
    LET covering == Covering(mapFinalizedBudgets, ret.nBlockHeight) IN
    (/\ ret.op \in {"IsBudgetPaymentBlock", "IsTransactionValid"}
     /\ covering # {}
     /\ MostVotes(mapFinalizedBudgets, covering) <= mnCount \div 20) =>
        IF ret.op = "IsBudgetPaymentBlock" THEN ~ret.value ELSE ret.value = "InValid"

\* C11's case: the best budget covering the height has 4 votes, five percent of the
\* enabled masternodes is 5, and IsTransactionValid was asked about a budget payment
TooFewVotesFourOfFive ==
    LET covering == Covering(mapFinalizedBudgets, ret.nBlockHeight) IN
    /\ ret.op = "IsTransactionValid"
    /\ covering # {}
    /\ MostVotes(mapFinalizedBudgets, covering) = 4
    /\ mnCount \div 20 = 5
    /\ Len(ret.txNew) = 2
    /\ ret.value = "InValid"

(* C14: FillBlockPayee leaves the outputs of the transaction as they were whenever
   the height after the best block is not a payment block, that is whenever
   IsBudgetPaymentBlock is false for it; a budget payee is added for a payment block
   only. *)
FillOnlyPaymentBlock ==
    (/\ ret.op = "FillBlockPayee"
     /\ ~IsBudgetPaymentBlock(mapFinalizedBudgets, nBestHeight + 1, mnCount).value) =>
        ret.vout = ret.txNew

(* C12: IsTransactionValid(txNew, h) returns InValid for every transaction when h is
   not a payment block, that is when IsBudgetPaymentBlock(h) is false, and it then
   leaves the finalized budgets as they were. *)
NotPaymentBlockInValid ==
    [][(ret'.op = "IsTransactionValid"
        /\ ~IsBudgetPaymentBlock(mapFinalizedBudgets, ret'.nBlockHeight, mnCount).value) =>
            /\ ret'.value = "InValid"
            /\ mapFinalizedBudgets' = mapFinalizedBudgets
      ]_vars

\* C12's case: no budget covers the height, and a transaction that pays what a budget
\* with votes enough expects at another height was turned down
NotPaymentBlockPaying ==
    /\ ret.op = "IsTransactionValid"
    /\ Covering(mapFinalizedBudgets, ret.nBlockHeight) = {}
    /\ Len(ret.txNew) = 2
    /\ \E b \in DOMAIN mapFinalizedBudgets :
          Budget_GetVoteCount(mapFinalizedBudgets[b]) > mnCount \div 20
    /\ ret.value = "InValid"


-----------------------------------------------------------------------------
(* The node of the main specification and its chain *)

\* the configuration of the node: -litemode=0, no masternode (fMasterNode unset and
\* activeMasternode.vin nullopt), -budgetvotemode=suggest
fLiteMode == FALSE
fMasterNode == FALSE
fActiveMasternode == FALSE
strBudgetMode == "suggest"

NumProposals == 1
MaxBlocks == 2
MaxImmature == 1
MaxSeenVotes == 1

ProposalHashes == 1..NumProposals

\* the cycle the proposals and the finalized budgets of the main specification pay in
MainStart == 2 * nBudgetCycleBlocks
MainEnd == MainStart + (nBudgetCycleBlocks + 1)

\* the heights NewBlock is called with: the i-th is a multiple of 14 for even i and the
\* block after it for odd i, all of them in the finalization window of MainStart
FirstHeight == MainStart - 2876
HeightOf(i) == FirstHeight + 14 * (i \div 2) + (i % 2)
MainHeights == {HeightOf(i) : i \in 0..MaxBlocks}

\* the clock moves in steps that establish a proposal
MainTimes == {k * (nProposalEstablishmentTime + TimeStep) : k \in 0..MaxNowTicks}

\* the hash of a finalized budget: its name is "main" in every budget, so the hash is
\* one of nBlockStart and of the proposals paid, in their order
RECURSIVE PaymentsCode(_)
PaymentsCode(payments) ==
    IF payments = <<>> THEN 0
    ELSE PaymentsCode(SubSeq(payments, 1, Len(payments) - 1)) * (NumProposals + 1)
            + payments[Len(payments)].nProposalHash
FinalizedHash(nBlockStart, payments) ==
    100 * (nBlockStart \div nBudgetCycleBlocks) + PaymentsCode(payments)

\* the collateral transactions: txid h pays the fee of proposal h, txid 1000 + b is the
\* fee a peer paid for budget b and txid 2000 + b the fee the wallet of this node pays
PeerFeeTx(budgetHash) == 1000 + budgetHash
WalletFeeTx(budgetHash) == 2000 + budgetHash

\* the proposal of hash h as a peer broadcasts it
MainProposal(h) ==
    Proposal(h, MainStart, MainEnd, 216000 * h, P2PKH(h), h, 0)

\* the payments GetBudget's result makes a finalized budget of
PaymentsOf(props, budget) ==
    [i \in 1..Len(budget) |->
        BudgetPayment(budget[i], props[budget[i]].address, props[budget[i]].nAlloted)]

\* the sequences that hold each element of S once
Orders(S) ==
    {order \in [1..Cardinality(S) -> S] : \A i, j \in DOMAIN order : i # j => order[i] # order[j]}

\* the finalized budgets a peer broadcasts: one per order of a set of proposals
PeerBudgets ==
    {FinalizedBudget(FinalizedHash(MainStart, pays), "main", MainStart, pays,
                     PeerFeeTx(FinalizedHash(MainStart, pays)), 0) :
        pays \in {[i \in 1..Len(order) |->
                      BudgetPayment(order[i], P2PKH(order[i]), MainProposal(order[i]).nAmount)] :
                  order \in UNION {Orders(S) : S \in (SUBSET ProposalHashes) \ {{}}}}}

BudgetHashes == {fb.nHash : fb \in PeerBudgets}
Txids == ProposalHashes \cup {PeerFeeTx(b) : b \in BudgetHashes}
            \cup {WalletFeeTx(b) : b \in BudgetHashes}

\* the transactions named as collateral of the items of hash 1 and 2: with the
\* commitment and the proposal fee, with the finalization fee only, below both fees,
\* committing to the other hash, with a P2SH output, with a lock time, without outputs,
\* without commitment, committing to both hashes, and one GetTransaction does not find
CollateralTxs ==
    <<Tx(0, <<TxOut(OpReturn(1), PROPOSAL_FEE_TX), TxOut(P2PKH(9), 1)>>),
      Tx(0, <<TxOut(P2PKH(9), 1), TxOut(OpReturn(1), BUDGET_FEE_TX)>>),
      Tx(0, <<TxOut(OpReturn(1), BUDGET_FEE_TX - 1)>>),
      Tx(0, <<TxOut(OpReturn(2), PROPOSAL_FEE_TX)>>),
      Tx(0, <<TxOut(OpReturn(1), PROPOSAL_FEE_TX), TxOut(P2SH(9), 1)>>),
      Tx(1, <<TxOut(OpReturn(1), PROPOSAL_FEE_TX)>>),
      Tx(0, <<>>),
      Tx(0, <<TxOut(P2PKH(9), PROPOSAL_FEE_TX)>>),
      Tx(0, <<TxOut(OpReturn(1), PROPOSAL_FEE_TX), TxOut(OpReturn(2), PROPOSAL_FEE_TX + 1)>>),
      NoTx>>
CollateralTxids == {3000 + i : i \in DOMAIN CollateralTxs}

\* the finalized budgets of the cycle of MainStart this node may make of the proposals
\* 1 and 2, and the fee transactions its wallet creates for them
SubmitBudgetHashes ==
    {FinalizedHash(MainStart, <<BudgetPayment(h, P2PKH(h), 0)>>) : h \in {1, 2}}
    \cup {FinalizedHash(MainStart, <<BudgetPayment(h, P2PKH(h), 0), BudgetPayment(3 - h, P2PKH(3 - h), 0)>>) : h \in {1, 2}}
SubmitTxids == {WalletFeeTx(b) : b \in SubmitBudgetHashes}

\* what GetTransaction finds for txid
ChainTx(txid) ==
    IF txid \in ProposalHashes
    THEN Tx(0, <<TxOut(OpReturn(txid), PROPOSAL_FEE_TX), TxOut(P2PKH(txid), 1)>>)
    ELSE IF \E b \in BudgetHashes : txid \in {PeerFeeTx(b), WalletFeeTx(b)}
    THEN Tx(0, <<TxOut(OpReturn(CHOOSE b \in BudgetHashes : txid \in {PeerFeeTx(b), WalletFeeTx(b)}),
                       BUDGET_FEE_TX)>>)
    ELSE IF txid \in {PayBudgetA.nFeeTXHash, PayBudgetB(PayStart).nFeeTXHash}
    THEN Tx(0, <<TxOut(OpReturn(txid), BUDGET_FEE_TX)>>)
    ELSE IF txid \in CollateralTxids THEN CollateralTxs[txid - 3000]
    ELSE IF txid \in SubmitTxids
    THEN Tx(0, <<TxOut(OpReturn(txid - WalletFeeTx(0)), BUDGET_FEE_TX)>>)
    ELSE NoTx

\* IsBudgetCollateralValid on the chain conf, time: conf[txid] is -1 for a transaction
\* GetTransaction does not find, 0 for one of the mempool, else its depth
IsBudgetCollateralValid(nTxCollateralHash, nExpectedHash, nTimeIn, fBudgetFinalization, conf, time) ==
    IF nTxCollateralHash \notin DOMAIN conf \/ conf[nTxCollateralHash] < 0
    THEN IsBudgetCollateralValidTx(NoTx, 0, 0, nExpectedHash, nTimeIn, fBudgetFinalization, 0)
    ELSE IsBudgetCollateralValidTx(ChainTx(nTxCollateralHash), conf[nTxCollateralHash],
                                   time[nTxCollateralHash], nExpectedHash, nTimeIn,
                                   fBudgetFinalization, GetIXConfirmations(nTxCollateralHash))


-----------------------------------------------------------------------------
(* Validity of proposals and finalized budgets *)

\* CBudgetProposal::UpdateValid with fCheckCollateral = true: ok is the result and obj
\* the proposal after it (fValid, and nTime which IsBudgetCollateralValid writes to)
Proposal_UpdateValid(prop, nCurrentHeight, enabled, conf, time) ==
    LET col == IsBudgetCollateralValid(prop.nFeeTXHash, prop.nHash, prop.nTime, FALSE, conf, time)
    IN IF IsHeavilyDownvoted(prop, enabled)
       THEN [ok |-> FALSE, obj |-> [prop EXCEPT !.fValid = FALSE]]
       ELSE IF ~IsWellFormed(prop, GetTotalBudget(prop.nBlockStart))
       THEN [ok |-> FALSE, obj |-> [prop EXCEPT !.fValid = FALSE]]
       ELSE IF IsExpired(prop, nCurrentHeight)
       THEN [ok |-> FALSE, obj |-> [prop EXCEPT !.fValid = FALSE]]
       ELSE IF ~col.ok
       THEN [ok |-> FALSE, obj |-> [prop EXCEPT !.fValid = FALSE, !.nTime = col.nTime]]
       ELSE [ok |-> TRUE, obj |-> [prop EXCEPT !.fValid = TRUE, !.nTime = col.nTime]]

\* the copy constructor of CBudgetProposal: fValid is set and nAlloted is not written,
\* so the copy holds an indeterminate nAlloted, garbage
Proposal_Copy(other, garbage) ==
    [other EXCEPT !.fValid = TRUE, !.nAlloted = garbage]

\* the values the model lets an indeterminate nAlloted of a proposal take
Garbage(prop) == {0, prop.nAmount}

\* CFinalizedBudget::GetTotalPayout
RECURSIVE GetTotalPayout(_)
GetTotalPayout(payments) ==
    IF payments = <<>> THEN 0 ELSE Head(payments).nAmount + GetTotalPayout(Tail(payments))

\* A mutation of CFinalizedBudget::UpdateValid: the age is counted from the start of
\* the cycle of nCurrentHeight
Budget_UpdateValid_CurrentCycle(fb, nCurrentHeight, conf, time) ==
    LET col == IsBudgetCollateralValid(fb.nFeeTXHash, fb.nHash, fb.nTime, TRUE, conf, time)
        nBlockStart == nCurrentHeight - (nCurrentHeight % nBudgetCycleBlocks)
        nMaxAge == nBlockStart - 2 * nBudgetCycleBlocks
        invalid == [ok |-> FALSE, obj |-> [fb EXCEPT !.fValid = FALSE]]
    IN IF fb.nBlockStart % nBudgetCycleBlocks # 0 THEN invalid
       ELSE IF Budget_GetBlockEnd(fb) - fb.nBlockStart > 100 THEN invalid
       ELSE IF Len(fb.vecBudgetPayments) > 100 THEN invalid
       ELSE IF fb.strBudgetName = "" THEN invalid
       ELSE IF fb.nBlockStart = 0 THEN invalid
       ELSE IF fb.nFeeTXHash = 0 THEN invalid
       ELSE IF GetTotalPayout(fb.vecBudgetPayments) > GetTotalBudget(fb.nBlockStart) THEN invalid
       ELSE IF ~col.ok
       THEN [ok |-> FALSE, obj |-> [fb EXCEPT !.fValid = FALSE, !.nTime = col.nTime]]
       ELSE IF Budget_GetBlockEnd(fb) < nMaxAge
       THEN [ok |-> FALSE, obj |-> [fb EXCEPT !.fValid = FALSE, !.nTime = col.nTime]]
       ELSE [ok |-> TRUE, obj |-> [fb EXCEPT !.fValid = TRUE, !.nTime = col.nTime]]

\* CFinalizedBudget::UpdateValid with fCheckCollateral = true
Budget_UpdateValid(fb, nCurrentHeight, conf, time) ==
    LET col == IsBudgetCollateralValid(fb.nFeeTXHash, fb.nHash, fb.nTime, TRUE, conf, time)
        nBlockStart == (nCurrentHeight - (nCurrentHeight % nBudgetCycleBlocks)) + nBudgetCycleBlocks
        nMaxAge == nBlockStart - 2 * nBudgetCycleBlocks
        invalid == [ok |-> FALSE, obj |-> [fb EXCEPT !.fValid = FALSE]]
    IN IF fb.nBlockStart % nBudgetCycleBlocks # 0 THEN invalid
       ELSE IF Budget_GetBlockEnd(fb) - fb.nBlockStart > 100 THEN invalid
       ELSE IF Len(fb.vecBudgetPayments) > 100 THEN invalid
       ELSE IF fb.strBudgetName = "" THEN invalid
       ELSE IF fb.nBlockStart = 0 THEN invalid
       ELSE IF fb.nFeeTXHash = 0 THEN invalid
       ELSE IF GetTotalPayout(fb.vecBudgetPayments) > GetTotalBudget(fb.nBlockStart) THEN invalid
       ELSE IF ~col.ok
       THEN [ok |-> FALSE, obj |-> [fb EXCEPT !.fValid = FALSE, !.nTime = col.nTime]]
       ELSE IF Budget_GetBlockEnd(fb) < nMaxAge
       THEN [ok |-> FALSE, obj |-> [fb EXCEPT !.fValid = FALSE, !.nTime = col.nTime]]
       ELSE [ok |-> TRUE, obj |-> [fb EXCEPT !.fValid = TRUE, !.nTime = col.nTime]]

\* the copy constructor of CFinalizedBudget: fAutoChecked is reset, fValid is set and
\* mapPayment_History is not copied
Budget_Copy(other) ==
    [other EXCEPT !.fAutoChecked = FALSE, !.fValid = TRUE, !.mapPayment_History = EmptyMap]

\* CFinalizedBudget::CheckAndVote with strBudgetMode not "auto": past its returns it
\* sets fAutoChecked and casts no vote.  fActive is activeMasternode.vin != nullopt and
\* fDraw is rand() % 4 == 0.
Budget_CheckAndVote(fb, fActive, fDraw) ==
    IF ~fMasterNode \/ fb.fAutoChecked THEN fb
    ELSE IF ~fActive THEN fb
    ELSE IF ~fDraw THEN fb
    ELSE [fb EXCEPT !.fAutoChecked = TRUE]

\* CFinalizedBudget::CleanAndRemove
Budget_CleanAndRemove(fb, known) ==
    [fb EXCEPT !.mapVotes =
        [mn \in DOMAIN fb.mapVotes |-> [fb.mapVotes[mn] EXCEPT !.fValid = (mn \in known)]]]

\* A mutation of AddProposal: the proposal is added without UpdateValid
AddProposal_NoUpdateValid(props, budgetProposal, nCurrentHeight, enabled, conf, time, garbage) ==
    IF budgetProposal.nHash \in DOMAIN props THEN [ok |-> FALSE, props |-> props]
    ELSE [ok |-> TRUE,
          props |-> Put(props, budgetProposal.nHash, Proposal_Copy(budgetProposal, garbage))]

\* CBudgetManager::AddProposal
AddProposal(props, budgetProposal, nCurrentHeight, enabled, conf, time, garbage) ==
    LET valid == Proposal_UpdateValid(budgetProposal, nCurrentHeight, enabled, conf, time) IN
    IF ~valid.ok THEN [ok |-> FALSE, props |-> props]
    ELSE IF budgetProposal.nHash \in DOMAIN props THEN [ok |-> FALSE, props |-> props]
    ELSE [ok |-> TRUE,
          props |-> Put(props, budgetProposal.nHash, Proposal_Copy(valid.obj, garbage))]

\* CBudgetManager::AddFinalizedBudget
AddFinalizedBudget(fbs, finalizedBudget, nCurrentHeight, conf, time) ==
    LET valid == Budget_UpdateValid(finalizedBudget, nCurrentHeight, conf, time) IN
    IF finalizedBudget.nHash \in DOMAIN fbs THEN [ok |-> FALSE, fbs |-> fbs]
    ELSE IF ~valid.ok THEN [ok |-> FALSE, fbs |-> fbs]
    ELSE [ok |-> TRUE, fbs |-> Put(fbs, finalizedBudget.nHash, Budget_Copy(valid.obj))]

\* the first loop of CBudgetManager::CheckAndRemove: the finalized budgets UpdateValid
\* accepts are copied to the map that replaces mapFinalizedBudgets
CheckAndRemove_Budgets(fbs, nCurrentHeight, conf, time, fDraw) ==
    LET kept == {b \in DOMAIN fbs : Budget_UpdateValid(fbs[b], nCurrentHeight, conf, time).ok}
    IN [b \in kept |->
           Budget_Copy(Budget_CheckAndVote(
               Budget_UpdateValid(fbs[b], nCurrentHeight, conf, time).obj, fActiveMasternode,
               fDraw[b]))]

\* the hashes of the proposals the second loop of CBudgetManager::CheckAndRemove keeps
CheckAndRemove_Kept(props, nCurrentHeight, enabled, conf, time) ==
    {h \in DOMAIN props : Proposal_UpdateValid(props[h], nCurrentHeight, enabled, conf, time).ok}

\* the second loop of CBudgetManager::CheckAndRemove; garbage gives each copy its
\* indeterminate nAlloted
CheckAndRemove_Proposals(props, nCurrentHeight, enabled, conf, time, garbage) ==
    [h \in CheckAndRemove_Kept(props, nCurrentHeight, enabled, conf, time) |->
        Proposal_Copy(Proposal_UpdateValid(props[h], nCurrentHeight, enabled, conf, time).obj,
                      garbage[h])]


-----------------------------------------------------------------------------
(* Votes in the manager *)

\* CBudgetManager::UpdateProposal; fromPeer is pfrom != nullptr, pushed tells that
\* BUDGETVOTESYNC was pushed to the peer for the proposal hash
UpdateProposal(props, orphans, asked, vote, fromPeer, synced, time) ==
    IF vote.nProposalHash \notin DOMAIN props
    THEN IF fromPeer /\ synced
         THEN [ok |-> FALSE, props |-> props,
               orphans |-> Put(orphans, vote.nProposalHash, vote),
               asked |-> IF vote.nProposalHash \in DOMAIN asked THEN asked
                         ELSE Put(asked, vote.nProposalHash, time),
               pushed |-> vote.nProposalHash \notin DOMAIN asked, parked |-> TRUE]
         ELSE [ok |-> FALSE, props |-> props, orphans |-> orphans, asked |-> asked,
               pushed |-> FALSE, parked |-> FALSE]
    ELSE LET r == CBudgetProposal_AddOrUpdateVote(props[vote.nProposalHash], vote, time)
         IN [ok |-> r.ok, props |-> [props EXCEPT ![vote.nProposalHash] = r.obj],
             orphans |-> orphans, asked |-> asked, pushed |-> FALSE, parked |-> FALSE]

\* CBudgetManager::UpdateFinalizedBudget
UpdateFinalizedBudget(fbs, orphans, asked, vote, fromPeer, synced, time) ==
    IF vote.nBudgetHash \notin DOMAIN fbs
    THEN IF fromPeer /\ synced
         THEN [ok |-> FALSE, fbs |-> fbs,
               orphans |-> Put(orphans, vote.nBudgetHash, vote),
               asked |-> IF vote.nBudgetHash \in DOMAIN asked THEN asked
                         ELSE Put(asked, vote.nBudgetHash, time),
               pushed |-> vote.nBudgetHash \notin DOMAIN asked, parked |-> TRUE]
         ELSE [ok |-> FALSE, fbs |-> fbs, orphans |-> orphans, asked |-> asked,
               pushed |-> FALSE, parked |-> FALSE]
    ELSE LET r == CFinalizedBudget_AddOrUpdateVote(fbs[vote.nBudgetHash], vote, time)
         IN [ok |-> r.ok, fbs |-> [fbs EXCEPT ![vote.nBudgetHash] = r.obj],
             orphans |-> orphans, asked |-> asked, pushed |-> FALSE, parked |-> FALSE]

\* the first loop of CBudgetManager::CheckOrphanVotes: UpdateProposal(vote, nullptr) on
\* every orphan vote, erased when it returns true.  The map holds one vote per proposal
\* hash, so the calls touch different proposals.
CheckOrphanVotes_Proposals(props, orphans, time) ==
    LET Try(h) == UpdateProposal(props, orphans, EmptyMap, orphans[h], FALSE, FALSE, time)
    IN [props |-> [h \in DOMAIN props |->
                     IF h \in DOMAIN orphans THEN Try(h).props[h] ELSE props[h]],
        orphans |-> Restrict(orphans, {h \in DOMAIN orphans : ~Try(h).ok})]

\* the second loop of CBudgetManager::CheckOrphanVotes
CheckOrphanVotes_Budgets(fbs, orphans, time) ==
    LET Try(b) == UpdateFinalizedBudget(fbs, orphans, EmptyMap, orphans[b], FALSE, FALSE, time)
    IN [fbs |-> [b \in DOMAIN fbs |->
                   IF b \in DOMAIN orphans THEN Try(b).fbs[b] ELSE fbs[b]],
        orphans |-> Restrict(orphans, {b \in DOMAIN orphans : ~Try(b).ok})]


-----------------------------------------------------------------------------
(* Spec: the manager under peer messages, new blocks and the clock *)

\* what NewBlock leaves in ret: the height, how far the handler got, the list GetBudget
\* returned to SubmitFinalBudget and the proposals CheckAndRemove dropped as heavily
\* downvoted
NewBlockRet(height, result, budget, removed, relayed) ==
    [op |-> "NewBlock", height |-> height, result |-> result, budget |-> budget,
     removed |-> removed, relayed |-> relayed]

\* CBudgetProposalBroadcast::Relay and CFinalizedBudgetBroadcast::Relay: the inventory
\* (type, hash) goes to the peers.  active and seen are the map of active items and the
\* seen map at the call: a peer that asks for the inventory is served from the seen map.
Relay(type, nHash, active, seen) ==
    [type |-> type, nHash |-> nHash, fActive |-> nHash \in DOMAIN active,
     fSeen |-> nHash \in seen]

\* the chain before the first NewBlock: the collateral of a proposal is in the mempool
\* or deep in the chain, the fee of a peer's finalized budget is in the mempool or is
\* never paid, and the wallet has paid no fee yet
InitMain ==
    /\ mapProposals = EmptyMap
    /\ mapSeenProposals = {}
    /\ vecImmatureProposals = <<>>
    /\ mapFinalizedBudgets = EmptyMap
    /\ mapSeenFinalizedBudgets = {}
    /\ vecImmatureFinalizedBudgets = <<>>
    /\ IdleVotes /\ IdleSubmit /\ IdleHist /\ IdlePeer /\ IdleThreads /\ IdleSignals
    /\ \E c \in [ProposalHashes -> {0, nBudgetFeeConfirmations}], f \in {-1, 0} :
          txConf = [t \in Txids |-> IF t \in ProposalHashes THEN c[t]
                                    ELSE IF t \in {PeerFeeTx(b) : b \in BudgetHashes} THEN f
                                    ELSE -1]
    /\ txTime = [t \in Txids |-> 0]
    /\ nBestHeight = FirstHeight - 1
    /\ now = 0
    /\ mnCount = NumMasternodes
    /\ mnKnown = Masternodes
    /\ fSynced = FALSE
    /\ ret = NoRet

\* ProcessMessage does nothing in lite mode or before the block chain is synced; the
\* model's node has its block chain synced
ProcessMessageRuns == ~fLiteMode

\* ProcessMessage, strCommand == NetMsgType::BUDGETPROPOSAL
MsgBudgetProposal ==
    \E h \in ProposalHashes :
        LET msg == MainProposal(h)
            col == IsBudgetCollateralValid(msg.nFeeTXHash, h, msg.nTime, FALSE, txConf, txTime)
            received == [msg EXCEPT !.nTime = col.nTime]
            valid == Proposal_UpdateValid(received, nBestHeight, mnCount, txConf, txTime)
        IN
        /\ ProcessMessageRuns
        /\ IF h \in mapSeenProposals
           THEN /\ ret' = NoRet
                /\ UNCHANGED <<propVars, finVars, voteVars>>
           ELSE IF ~col.ok
           THEN IF col.nConf >= 1
                THEN /\ Len(vecImmatureProposals) < MaxImmature
                     /\ vecImmatureProposals' = Append(vecImmatureProposals, received)
                     /\ ret' = NoRet
                     /\ UNCHANGED <<mapProposals, mapSeenProposals, finVars, voteVars>>
                ELSE /\ ret' = NoRet
                     /\ UNCHANGED <<propVars, finVars, voteVars>>
           ELSE IF ~valid.ok
           THEN /\ mapSeenProposals' = mapSeenProposals \cup {h}
                /\ ret' = NoRet
                /\ UNCHANGED <<mapProposals, vecImmatureProposals, finVars, voteVars>>
           ELSE \E garbage \in Garbage(msg) :
                LET added == AddProposal(mapProposals, Proposal_Copy(valid.obj, garbage),
                                         nBestHeight, mnCount, txConf, txTime, garbage)
                    orphan == CheckOrphanVotes_Proposals(added.props, mapOrphanProposalVotes, now)
                    orphanF == CheckOrphanVotes_Budgets(mapFinalizedBudgets,
                                                        mapOrphanFinalizedBudgetVotes, now)
                IN /\ mapSeenProposals' = mapSeenProposals \cup {h}
                   /\ mapProposals' = orphan.props
                   /\ mapOrphanProposalVotes' = orphan.orphans
                   /\ mapFinalizedBudgets' = orphanF.fbs
                   /\ mapOrphanFinalizedBudgetVotes' = orphanF.orphans
                   /\ ret' = NoRet
                   /\ UNCHANGED <<vecImmatureProposals, mapSeenFinalizedBudgets,
                                  vecImmatureFinalizedBudgets, mapSeenProposalVotes,
                                  mapSeenFinalizedBudgetVotes, askedForSourceProposalOrBudget>>
        /\ UNCHANGED <<submitVars, nBestHeight, now, mnVars, chainVars, histVars, peerVars, threadVars, signalVars>>


\* ProcessMessage, strCommand == NetMsgType::FINALBUDGET
MsgFinalBudget ==
    \E msg \in PeerBudgets :
        LET b == msg.nHash
            col == IsBudgetCollateralValid(msg.nFeeTXHash, b, msg.nTime, TRUE, txConf, txTime)
            received == [msg EXCEPT !.nTime = col.nTime]
            valid == Budget_UpdateValid(received, nBestHeight, txConf, txTime)
        IN
        /\ ProcessMessageRuns
        /\ IF b \in mapSeenFinalizedBudgets
           THEN /\ ret' = NoRet
                /\ UNCHANGED <<propVars, finVars, voteVars>>
           ELSE IF ~col.ok
           THEN IF col.nConf >= 1
                THEN /\ Len(vecImmatureFinalizedBudgets) < MaxImmature
                     /\ vecImmatureFinalizedBudgets' = Append(vecImmatureFinalizedBudgets, received)
                     /\ ret' = NoRet
                     /\ UNCHANGED <<propVars, mapFinalizedBudgets, mapSeenFinalizedBudgets,
                                    voteVars>>
                ELSE /\ ret' = NoRet
                     /\ UNCHANGED <<propVars, finVars, voteVars>>
           ELSE IF ~valid.ok
           THEN /\ mapSeenFinalizedBudgets' = mapSeenFinalizedBudgets \cup {b}
                /\ ret' = NoRet
                /\ UNCHANGED <<propVars, mapFinalizedBudgets, vecImmatureFinalizedBudgets,
                               voteVars>>
           ELSE LET added == AddFinalizedBudget(mapFinalizedBudgets, Budget_Copy(valid.obj),
                                                nBestHeight, txConf, txTime)
                    orphan == CheckOrphanVotes_Proposals(mapProposals, mapOrphanProposalVotes, now)
                    orphanF == CheckOrphanVotes_Budgets(added.fbs,
                                                        mapOrphanFinalizedBudgetVotes, now)
                IN /\ mapSeenFinalizedBudgets' = mapSeenFinalizedBudgets \cup {b}
                   /\ mapFinalizedBudgets' = orphanF.fbs
                   /\ mapOrphanFinalizedBudgetVotes' = orphanF.orphans
                   /\ mapProposals' = orphan.props
                   /\ mapOrphanProposalVotes' = orphan.orphans
                   /\ ret' = NoRet
                   /\ UNCHANGED <<mapSeenProposals, vecImmatureProposals,
                                  vecImmatureFinalizedBudgets, mapSeenProposalVotes,
                                  mapSeenFinalizedBudgetVotes, askedForSourceProposalOrBudget>>
        /\ UNCHANGED <<submitVars, nBestHeight, now, mnVars, chainVars, histVars, peerVars, threadVars, signalVars>>

\* what vote.CheckSignature() returns for the votes that reach this node: their
\* signatures are valid
SignatureOutcomes == {TRUE}

\* the masternodes whose votes reach this node: one of the list and one the list does
\* not hold
Voters == {1, NumMasternodes + 1}

ProcessBudgetVote_Unsigned(seen, props, orphans, asked, vote, fSignature, known, synced, time) ==
    LET same == [seen |-> seen, props |-> props, orphans |-> orphans, asked |-> asked,
                 stored |-> FALSE, relayed |-> FALSE, misbehaving |-> 0, pushed |-> FALSE,
                 askedForMN |-> FALSE, parked |-> FALSE]
        r == UpdateProposal(props, orphans, asked, vote, TRUE, synced, time)
    IN IF vote \in seen THEN same
       ELSE IF vote.vin \notin known THEN [same EXCEPT !.askedForMN = TRUE]
       ELSE [seen |-> seen \cup {vote}, props |-> r.props, orphans |-> r.orphans,
             asked |-> r.asked, stored |-> r.ok, relayed |-> r.ok, misbehaving |-> 0,
             pushed |-> r.pushed, askedForMN |-> FALSE, parked |-> r.parked]

\* ProcessMessage, strCommand == NetMsgType::BUDGETVOTE, past the tests of lite mode
\* and of the block chain sync; fSignature is what vote.CheckSignature() returns.  The
\* result holds the maps after the handler and what it did to the peer: stored and
\* relayed (UpdateProposal returned true and vote.Relay() ran), misbehaving (the
\* score given to Misbehaving, 0 when it is not called), pushed (BUDGETVOTESYNC for
\* the target was pushed) and askedForMN (mnodeman.AskForMN ran).
ProcessBudgetVote(seen, props, orphans, asked, vote, fSignature, known, synced, time) ==
    LET same == [seen |-> seen, props |-> props, orphans |-> orphans, asked |-> asked,
                 stored |-> FALSE, relayed |-> FALSE, misbehaving |-> 0, pushed |-> FALSE,
                 askedForMN |-> FALSE, parked |-> FALSE]
        r == UpdateProposal(props, orphans, asked, vote, TRUE, synced, time)
    IN IF vote \in seen THEN same
       ELSE IF vote.vin \notin known THEN [same EXCEPT !.askedForMN = TRUE]
       ELSE IF ~fSignature
       THEN [same EXCEPT !.seen = seen \cup {vote},
                         !.misbehaving = IF synced THEN 20 ELSE 0,
                         !.askedForMN = TRUE]
       ELSE [seen |-> seen \cup {vote}, props |-> r.props, orphans |-> r.orphans,
             asked |-> r.asked, stored |-> r.ok, relayed |-> r.ok, misbehaving |-> 0,
             pushed |-> r.pushed, askedForMN |-> FALSE, parked |-> r.parked]

\* ProcessMessage, strCommand == NetMsgType::FINALBUDGETVOTE
ProcessFinalBudgetVote(seen, fbs, orphans, asked, vote, fSignature, known, synced, time) ==
    LET same == [seen |-> seen, fbs |-> fbs, orphans |-> orphans, asked |-> asked,
                 stored |-> FALSE, relayed |-> FALSE, misbehaving |-> 0, pushed |-> FALSE,
                 askedForMN |-> FALSE, parked |-> FALSE]
        r == UpdateFinalizedBudget(fbs, orphans, asked, vote, TRUE, synced, time)
    IN IF vote \in seen THEN same
       ELSE IF vote.vin \notin known THEN [same EXCEPT !.askedForMN = TRUE]
       ELSE IF ~fSignature
       THEN [same EXCEPT !.seen = seen \cup {vote},
                         !.misbehaving = IF synced THEN 20 ELSE 0,
                         !.askedForMN = TRUE]
       ELSE [seen |-> seen \cup {vote}, fbs |-> r.fbs, orphans |-> r.orphans,
             asked |-> r.asked, stored |-> r.ok, relayed |-> r.ok, misbehaving |-> 0,
             pushed |-> r.pushed, askedForMN |-> FALSE, parked |-> r.parked]

\* a BUDGETVOTE message arrives
MsgBudgetVote ==
    \E mn \in Voters, h \in ProposalHashes, dir \in {"YES", "NO"}, fSignature \in SignatureOutcomes :
        LET vote == BudgetVote(mn, h, dir, now) IN
        /\ ProcessMessageRuns
        /\ (vote \in mapSeenProposalVotes \/ mn \notin mnKnown) => fSignature
        /\ (vote \notin mapSeenProposalVotes /\ mn \in mnKnown) =>
               Cardinality(mapSeenProposalVotes) < MaxSeenVotes
        /\ \E r \in {ProcessBudgetVote(mapSeenProposalVotes, mapProposals,
                                        mapOrphanProposalVotes, askedForSourceProposalOrBudget,
                                        vote, fSignature, mnKnown, fSynced, now)} :
              /\ mapSeenProposalVotes' = r.seen
              /\ mapProposals' = r.props
              /\ mapOrphanProposalVotes' = r.orphans
              /\ askedForSourceProposalOrBudget' = r.asked
        /\ ret' = NoRet
        /\ UNCHANGED <<mapSeenProposals, vecImmatureProposals, mapSeenFinalizedBudgetVotes,
                       mapOrphanFinalizedBudgetVotes, finVars, submitVars, nBestHeight, now,
                       mnVars, chainVars, histVars, peerVars, threadVars, signalVars>>

\* a FINALBUDGETVOTE message arrives
MsgFinalBudgetVote ==
    \E mn \in Voters, b \in BudgetHashes, fSignature \in SignatureOutcomes :
        LET vote == FinalizedBudgetVote(mn, b, now) IN
        /\ ProcessMessageRuns
        /\ (vote \in mapSeenFinalizedBudgetVotes \/ mn \notin mnKnown) => fSignature
        /\ (vote \notin mapSeenFinalizedBudgetVotes /\ mn \in mnKnown) =>
               Cardinality(mapSeenFinalizedBudgetVotes) < MaxSeenVotes
        /\ \E r \in {ProcessFinalBudgetVote(mapSeenFinalizedBudgetVotes, mapFinalizedBudgets,
                                             mapOrphanFinalizedBudgetVotes,
                                             askedForSourceProposalOrBudget, vote, fSignature,
                                             mnKnown, fSynced, now)} :
              /\ mapSeenFinalizedBudgetVotes' = r.seen
              /\ mapFinalizedBudgets' = r.fbs
              /\ mapOrphanFinalizedBudgetVotes' = r.orphans
              /\ askedForSourceProposalOrBudget' = r.asked
        /\ ret' = NoRet
        /\ UNCHANGED <<mapSeenFinalizedBudgets, vecImmatureFinalizedBudgets, mapSeenProposalVotes,
                       mapOrphanProposalVotes, propVars, submitVars, nBestHeight, now, mnVars,
                       chainVars, histVars, peerVars, threadVars, signalVars>>


-----------------------------------------------------------------------------
(* SubmitFinalBudget and NewBlock *)

\* A mutation of SubmitFinalBudget: the wallet is asked for a collateral whatever
\* mapCollateralTxids holds
SubmitFinalBudget_AlwaysCreate(props, fbs, seen, txids, submitted, conf, time, nCurrentHeight, enabled, known, clock, order, fWallet) ==
    LET nBlockStart == (nCurrentHeight - (nCurrentHeight % nBudgetCycleBlocks)) + nBudgetCycleBlocks
        finalizationWindow == IF NetworkID = "test" THEN 64 ELSE (nBudgetCycleBlocks \div 30) * 2
        same == [props |-> props, fbs |-> fbs, seen |-> seen, txids |-> txids,
                 submitted |-> submitted, conf |-> conf, result |-> "none", budget |-> <<>>,
                 relayed |-> {}, created |-> {}]
        budget == GetBudget(props, nCurrentHeight, enabled, known, clock, order)
        called == [same EXCEPT !.props = budget.props, !.budget = budget.budget]
        payments == PaymentsOf(budget.props, budget.budget)
        budgetHash == FinalizedHash(nBlockStart, payments)
        fCreate == TRUE
        txidCollateral == IF fCreate THEN WalletFeeTx(budgetHash) ELSE txids[budgetHash]
        txids1 == IF fCreate THEN Put(txids, budgetHash, txidCollateral) ELSE txids
        conf1 == IF fCreate THEN [conf EXCEPT ![txidCollateral] = 0] ELSE conf
        created == IF fCreate THEN {budgetHash} ELSE {}
        finalizedBudgetBroadcast ==
            FinalizedBudget(budgetHash, "main", nBlockStart, payments, txidCollateral, 0)
        col == IsBudgetCollateralValid(txidCollateral, budgetHash, 0, TRUE, conf1, time)
        valid == Budget_UpdateValid(finalizedBudgetBroadcast, nCurrentHeight, conf1, time)
        added == AddFinalizedBudget(fbs, valid.obj, nCurrentHeight, conf1, time)
    IN IF submitted >= nBlockStart THEN same
       ELSE IF nBlockStart - nCurrentHeight > finalizationWindow THEN same
       ELSE IF Len(payments) < 1 THEN called
       ELSE IF budgetHash \in seen THEN [called EXCEPT !.submitted = nCurrentHeight]
       ELSE IF fCreate /\ ~fWallet THEN called
       ELSE IF ~col.ok
       THEN [called EXCEPT !.txids = txids1, !.conf = conf1, !.result = "collateral",
                           !.created = created]
       ELSE IF ~valid.ok
       THEN [called EXCEPT !.txids = txids1, !.conf = conf1, !.result = "invalid",
                           !.created = created]
       ELSE [called EXCEPT !.fbs = added.fbs, !.seen = seen \cup {budgetHash},
                           !.txids = txids1, !.submitted = nCurrentHeight, !.conf = conf1,
                           !.result = "relay", !.created = created,
                           !.relayed = {Relay("MSG_BUDGET_FINALIZED", budgetHash, fbs,
                                              seen \cup {budgetHash})}]

\* CBudgetManager::SubmitFinalBudget at height nCurrentHeight.  order is the outcome of
\* the std::sort of GetBudget and fWallet whether CreateBudgetFeeTX and CommitTransaction
\* succeed; submitted is the static nSubmittedHeight.  The result holds what the call
\* leaves in the variables it writes and the list its GetBudget returned.
SubmitFinalBudget(props, fbs, seen, txids, submitted, conf, time, nCurrentHeight, enabled, known, clock, order, fWallet) ==
    LET nBlockStart == (nCurrentHeight - (nCurrentHeight % nBudgetCycleBlocks)) + nBudgetCycleBlocks
        finalizationWindow == IF NetworkID = "test" THEN 64 ELSE (nBudgetCycleBlocks \div 30) * 2
        same == [props |-> props, fbs |-> fbs, seen |-> seen, txids |-> txids,
                 submitted |-> submitted, conf |-> conf, result |-> "none", budget |-> <<>>,
                 relayed |-> {}, created |-> {}]
        budget == GetBudget(props, nCurrentHeight, enabled, known, clock, order)
        called == [same EXCEPT !.props = budget.props, !.budget = budget.budget]
        payments == PaymentsOf(budget.props, budget.budget)
        budgetHash == FinalizedHash(nBlockStart, payments)
        fCreate == budgetHash \notin DOMAIN txids
        txidCollateral == IF fCreate THEN WalletFeeTx(budgetHash) ELSE txids[budgetHash]
        txids1 == IF fCreate THEN Put(txids, budgetHash, txidCollateral) ELSE txids
        conf1 == IF fCreate THEN [conf EXCEPT ![txidCollateral] = 0] ELSE conf
        created == IF fCreate THEN {budgetHash} ELSE {}
        finalizedBudgetBroadcast ==
            FinalizedBudget(budgetHash, "main", nBlockStart, payments, txidCollateral, 0)
        col == IsBudgetCollateralValid(txidCollateral, budgetHash, 0, TRUE, conf1, time)
        valid == Budget_UpdateValid(finalizedBudgetBroadcast, nCurrentHeight, conf1, time)
        added == AddFinalizedBudget(fbs, valid.obj, nCurrentHeight, conf1, time)
    IN IF submitted >= nBlockStart THEN same
       ELSE IF nBlockStart - nCurrentHeight > finalizationWindow THEN same
       ELSE IF Len(payments) < 1 THEN called
       ELSE IF budgetHash \in seen THEN [called EXCEPT !.submitted = nCurrentHeight]
       ELSE IF fCreate /\ ~fWallet THEN called
       ELSE IF ~col.ok
       THEN [called EXCEPT !.txids = txids1, !.conf = conf1, !.result = "collateral",
                           !.created = created]
       ELSE IF ~valid.ok
       THEN [called EXCEPT !.txids = txids1, !.conf = conf1, !.result = "invalid",
                           !.created = created]
       ELSE [called EXCEPT !.fbs = added.fbs, !.seen = seen \cup {budgetHash},
                           !.txids = txids1, !.submitted = nCurrentHeight, !.conf = conf1,
                           !.result = "relay", !.created = created,
                           !.relayed = {Relay("MSG_BUDGET_FINALIZED", budgetHash, fbs,
                                              seen \cup {budgetHash})}]

\* A mutation of PromoteProposals: a promoted entry is not erased from the vector
RECURSIVE PromoteProposals_NoErase(_, _, _, _, _, _, _, _, _, _)
PromoteProposals_NoErase(vec, kept, props, seen, relayed, nCurrentHeight, enabled, conf, time, garbage) ==
    IF vec = <<>> THEN [vec |-> kept, props |-> props, relayed |-> relayed]
    ELSE LET it == Head(vec)
             col == IsBudgetCollateralValid(it.nFeeTXHash, it.nHash, it.nTime, FALSE, conf, time)
             updated == [it EXCEPT !.nTime = col.nTime]
             valid == Proposal_UpdateValid(updated, nCurrentHeight, enabled, conf, time)
             added == AddProposal(props, Proposal_Copy(valid.obj, garbage[it.nHash]),
                                  nCurrentHeight, enabled, conf, time, garbage[it.nHash])
         IN IF ~col.ok
            THEN PromoteProposals_NoErase(Tail(vec), Append(kept, updated), props, seen, relayed,
                                  nCurrentHeight, enabled, conf, time, garbage)
            ELSE IF ~valid.ok
            THEN PromoteProposals_NoErase(Tail(vec), kept, props, seen, relayed, nCurrentHeight,
                                  enabled, conf, time, garbage)
            ELSE PromoteProposals_NoErase(Tail(vec), Append(kept, updated), added.props, seen,
                                  IF added.ok
                                  THEN relayed \cup {Relay("MSG_BUDGET_PROPOSAL", it.nHash,
                                                           added.props, seen)}
                                  ELSE relayed,
                                  nCurrentHeight, enabled, conf, time, garbage)

\* the loop of NewBlock over vecImmatureProposals: an entry whose collateral is still
\* not valid stays, any other leaves the vector and is added when UpdateValid accepts it
RECURSIVE PromoteProposals(_, _, _, _, _, _, _, _, _, _)
PromoteProposals(vec, kept, props, seen, relayed, nCurrentHeight, enabled, conf, time, garbage) ==
    IF vec = <<>> THEN [vec |-> kept, props |-> props, relayed |-> relayed]
    ELSE LET it == Head(vec)
             col == IsBudgetCollateralValid(it.nFeeTXHash, it.nHash, it.nTime, FALSE, conf, time)
             updated == [it EXCEPT !.nTime = col.nTime]
             valid == Proposal_UpdateValid(updated, nCurrentHeight, enabled, conf, time)
             added == AddProposal(props, Proposal_Copy(valid.obj, garbage[it.nHash]),
                                  nCurrentHeight, enabled, conf, time, garbage[it.nHash])
         IN IF ~col.ok
            THEN PromoteProposals(Tail(vec), Append(kept, updated), props, seen, relayed,
                                  nCurrentHeight, enabled, conf, time, garbage)
            ELSE IF ~valid.ok
            THEN PromoteProposals(Tail(vec), kept, props, seen, relayed, nCurrentHeight,
                                  enabled, conf, time, garbage)
            ELSE PromoteProposals(Tail(vec), kept, added.props, seen,
                                  IF added.ok
                                  THEN relayed \cup {Relay("MSG_BUDGET_PROPOSAL", it.nHash,
                                                           added.props, seen)}
                                  ELSE relayed,
                                  nCurrentHeight, enabled, conf, time, garbage)

\* the loop of NewBlock over vecImmatureFinalizedBudgets
RECURSIVE PromoteBudgets(_, _, _, _, _, _, _, _)
PromoteBudgets(vec, kept, fbs, seen, relayed, nCurrentHeight, conf, time) ==
    IF vec = <<>> THEN [vec |-> kept, fbs |-> fbs, relayed |-> relayed]
    ELSE LET it == Head(vec)
             col == IsBudgetCollateralValid(it.nFeeTXHash, it.nHash, it.nTime, TRUE, conf, time)
             updated == [it EXCEPT !.nTime = col.nTime]
             valid == Budget_UpdateValid(updated, nCurrentHeight, conf, time)
             added == AddFinalizedBudget(fbs, Budget_Copy(valid.obj), nCurrentHeight, conf, time)
         IN IF ~col.ok
            THEN PromoteBudgets(Tail(vec), Append(kept, updated), fbs, seen, relayed,
                                nCurrentHeight, conf, time)
            ELSE IF ~valid.ok
            THEN PromoteBudgets(Tail(vec), kept, fbs, seen, relayed, nCurrentHeight, conf,
                                time)
            ELSE PromoteBudgets(Tail(vec), kept, added.fbs, seen,
                                IF added.ok
                                THEN relayed \cup {Relay("MSG_BUDGET_FINALIZED", it.nHash,
                                                         added.fbs, seen)}
                                ELSE relayed,
                                nCurrentHeight, conf, time)

\* the transactions of the mempool: the next block holds them all
Mempool(conf) == {t \in DOMAIN conf : conf[t] = 0}

\* the chain after blocks up to height: the transactions of mined enter the new tip and
\* the others in the chain get deeper; a depth is counted up to nBudgetFeeConfirmations
ChainAdvance(conf, mined, blocks) ==
    [t \in DOMAIN conf |->
        IF conf[t] >= 1
        THEN IF conf[t] + blocks > nBudgetFeeConfirmations THEN nBudgetFeeConfirmations
             ELSE conf[t] + blocks
        ELSE IF t \in mined THEN 1 ELSE conf[t]]

\* CBudgetManager::ClearSeen (masternode-budget.h): the four seen maps are emptied
ClearSeen(seen) == {}

AskedForCleanup_HalfDay(asked, time) ==
    Restrict(asked, {h \in DOMAIN asked : ~(asked[h] <= time - 60 * 60 * 12)})

\* the entries NewBlock leaves in askedForSourceProposalOrBudget
AskedForCleanup(asked, time) ==
    Restrict(asked, {h \in DOMAIN asked : ~(asked[h] <= time - 60 * 60 * 24)})

\* the outcome r of a call of NewBlock, with what its two TRY_LOCK got when fObserve
Observed(r, fLockProposals, fLockBudgets, fObserve) ==
    IF fObserve
    THEN [op |-> r.op, height |-> r.height, result |-> r.result, budget |-> r.budget,
          removed |-> r.removed, relayed |-> r.relayed,
          fLockProposals |-> fLockProposals, fLockBudgets |-> fLockBudgets]
    ELSE r

\* CBudgetManager::NewBlock(height), called when the tip of the chain is at height, the
\* next of heights.  mined are the transactions the new tip holds, order and fWallet
\* the draws of SubmitFinalBudget, fClear is rand() % 1440 == 0, garbage the
\* indeterminate nAlloted of the copies, fLockProposals and fLockBudgets what the two
\* TRY_LOCK get; with fObserve the outcome holds the two as well.
NewBlockAt(heights, fLockProposals, fLockBudgets, fObserve) ==
    \E height \in heights, mined \in {Mempool(txConf)},
       order \in SortedOrders(CleanedProposals(mapProposals, mnKnown)),
       fWallet \in BOOLEAN, fClear \in BOOLEAN,
       garbage \in [ProposalHashes -> {0} \cup {MainProposal(h).nAmount : h \in ProposalHashes}] :
        /\ height > nBestHeight
        /\ \A h2 \in heights : ~(nBestHeight < h2 /\ h2 < height)
        /\ \A h \in ProposalHashes : garbage[h] \in Garbage(MainProposal(h))
        \* a draw the handler does not read is not taken
        /\ (~fSynced \/ height % 14 # 0) => ~fClear /\ ~fLockProposals
        /\ ~fLockProposals => ~fLockBudgets
        /\ ~fSynced => ~fWallet
        /\ nBestHeight' = height
        /\ UNCHANGED <<now, mnVars, mapOrphanProposalVotes, mapOrphanFinalizedBudgetVotes>>
        /\ \E time1 \in {[t \in DOMAIN txTime |-> IF t \in mined THEN now ELSE txTime[t]]},
              conf1 \in {ChainAdvance(txConf, mined, height - nBestHeight)} :
           /\ txTime' = time1
           /\ IF ~fSynced
              THEN /\ txConf' = conf1
                   /\ ret' = Observed(NewBlockRet(height, "unsynced", <<>>, {}, {}), fLockProposals, fLockBudgets, fObserve)
                   /\ UNCHANGED <<propVars, finVars, mapSeenProposalVotes,
                                  mapSeenFinalizedBudgetVotes, askedForSourceProposalOrBudget,
                                  submitVars, histVars, peerVars, threadVars, signalVars>>
              ELSE
              \E submit \in {IF strBudgetMode = "suggest"
                             THEN SubmitFinalBudget(mapProposals, mapFinalizedBudgets,
                                      mapSeenFinalizedBudgets, mapCollateralTxids,
                                      nSubmittedHeight, conf1, time1, height, mnCount,
                                      mnKnown, now, order, fWallet)
                             ELSE [props |-> mapProposals, fbs |-> mapFinalizedBudgets,
                                   seen |-> mapSeenFinalizedBudgets,
                                   txids |-> mapCollateralTxids,
                                   submitted |-> nSubmittedHeight, conf |-> conf1,
                                   result |-> "none", budget |-> <<>>, relayed |-> {},
                                   created |-> {}]} :
              /\ txConf' = submit.conf
              /\ mapCollateralTxids' = submit.txids
              /\ nSubmittedHeight' = submit.submitted
              /\ IF height % 14 # 0
                 THEN /\ mapProposals' = submit.props
                      /\ mapFinalizedBudgets' = submit.fbs
                      /\ mapSeenFinalizedBudgets' = submit.seen
                      /\ ret' = Observed(NewBlockRet(height, submit.result, submit.budget, {}, submit.relayed), fLockProposals, fLockBudgets, fObserve)
                      /\ UNCHANGED <<mapSeenProposals, vecImmatureProposals,
                                     vecImmatureFinalizedBudgets, mapSeenProposalVotes,
                                     mapSeenFinalizedBudgetVotes,
                                     askedForSourceProposalOrBudget, histVars, peerVars, threadVars, signalVars>>
                 ELSE
                 \E fbs3 \in {CheckAndRemove_Budgets(submit.fbs, height, submit.conf, time1,
                                                     [b \in DOMAIN submit.fbs |-> FALSE])},
                    props3 \in {CheckAndRemove_Proposals(submit.props, height, mnCount,
                                                         submit.conf, time1, garbage)} :
                 LET dropped == {h \in DOMAIN submit.props \ DOMAIN props3 :
                                    IsHeavilyDownvoted(submit.props[h], mnCount)}
                 IN
                 /\ mapSeenProposals' = IF fClear THEN ClearSeen(mapSeenProposals)
                                        ELSE mapSeenProposals
                 /\ mapSeenProposalVotes' = IF fClear THEN ClearSeen(mapSeenProposalVotes)
                                            ELSE mapSeenProposalVotes
                 /\ mapSeenFinalizedBudgets' = IF fClear THEN ClearSeen(submit.seen)
                                               ELSE submit.seen
                 /\ mapSeenFinalizedBudgetVotes' =
                       IF fClear THEN ClearSeen(mapSeenFinalizedBudgetVotes)
                       ELSE mapSeenFinalizedBudgetVotes
                 /\ removedDownvoted' = removedDownvoted \cup dropped
                 /\ UNCHANGED <<paidChecked, pushedAt, parkedVotes, autoChecked, peerVars, threadVars, signalVars>>
                 /\ askedForSourceProposalOrBudget' =
                       AskedForCleanup(askedForSourceProposalOrBudget, now)
                 /\ IF ~fLockProposals
                    THEN /\ mapProposals' = props3
                         /\ mapFinalizedBudgets' = fbs3
                         /\ ret' = Observed(NewBlockRet(height, "checked", submit.budget, dropped,
                                               submit.relayed), fLockProposals, fLockBudgets, fObserve)
                         /\ UNCHANGED <<vecImmatureProposals, vecImmatureFinalizedBudgets>>
                    ELSE
                    \E promoted \in {PromoteProposals(vecImmatureProposals, <<>>,
                                        CleanedProposals(props3, mnKnown),
                                        mapSeenProposals', submit.relayed, height, mnCount,
                                        submit.conf, time1, garbage)} :
                    /\ mapProposals' = promoted.props
                    /\ vecImmatureProposals' = promoted.vec
                    /\ IF ~fLockBudgets
                       THEN /\ mapFinalizedBudgets' = fbs3
                            /\ ret' = Observed(NewBlockRet(height, "checked", submit.budget, dropped,
                                                  promoted.relayed), fLockProposals, fLockBudgets, fObserve)
                            /\ UNCHANGED vecImmatureFinalizedBudgets
                       ELSE
                       \E promotedF \in {PromoteBudgets(vecImmatureFinalizedBudgets, <<>>,
                                            [b \in DOMAIN fbs3 |->
                                                Budget_CleanAndRemove(fbs3[b], mnKnown)],
                                            mapSeenFinalizedBudgets', promoted.relayed,
                                            height, submit.conf, time1)} :
                       /\ mapFinalizedBudgets' = promotedF.fbs
                       /\ vecImmatureFinalizedBudgets' = promotedF.vec
                       /\ ret' = Observed(NewBlockRet(height, "checked", submit.budget, dropped,
                                             promotedF.relayed), fLockProposals, fLockBudgets, fObserve)

\* NewBlock at the heights of the main specification
NewBlock ==
    \E fLockProposals \in BOOLEAN, fLockBudgets \in BOOLEAN :
        NewBlockAt(MainHeights, fLockProposals, fLockBudgets, FALSE)

\* masternodeSync reaches MASTERNODE_SYNC_FINISHED
SyncFinished ==
    /\ ~fSynced
    /\ fSynced' = TRUE
    /\ ret' = NoRet
    /\ UNCHANGED <<propVars, finVars, voteVars, submitVars, nBestHeight, now, mnCount, mnKnown,
                   chainVars, histVars, peerVars, threadVars, signalVars>>

\* the clock reaches the next time of MainTimes
MainClockStep ==
    /\ now + (nProposalEstablishmentTime + TimeStep) \in MainTimes
    /\ now' = now + (nProposalEstablishmentTime + TimeStep)
    /\ ret' = NoRet
    /\ UNCHANGED <<propVars, finVars, voteVars, submitVars, nBestHeight, mnVars, chainVars,
                   histVars, peerVars, threadVars, signalVars>>

Next ==
    \/ MsgBudgetProposal
    \/ MsgBudgetVote
    \/ MsgFinalBudget
    \/ MsgFinalBudgetVote
    \/ NewBlock
    \/ SyncFinished
    \/ MainClockStep

Spec == InitMain /\ [][Next]_vars


-----------------------------------------------------------------------------
(* Properties of Spec *)

\* C1: at all times every hash of the active proposal map is in the seen-proposal map
\* and every hash of the active finalized-budget map is in the seen-finalized-budget map.
SeenHoldsActive ==
    /\ DOMAIN mapProposals \subseteq mapSeenProposals
    /\ DOMAIN mapFinalizedBudgets \subseteq mapSeenFinalizedBudgets

\* no - yes > enabled_masternodes / 10, over the votes whose fValid is set
DownvotedByCount(prop, enabled) ==
    Cardinality(ValidVotes(prop, "NO")) - Cardinality(ValidVotes(prop, "YES")) > enabled \div 10

\* C8 as stated, its last part: once CheckAndRemove dropped a proposal as heavily
\* downvoted, no later GetBudget returns it.
RemovedStaysExcluded ==
    ret.op = "NewBlock" => Range(ret.budget) \cap removedDownvoted = {}

\* C8: a proposal is heavily downvoted iff no - yes > enabled_masternodes / 10; a
\* NewBlock that runs CheckAndRemove drops every active proposal that is heavily
\* downvoted, so that no heavily downvoted proposal is active after it; and GetBudget
\* returns no proposal that is heavily downvoted when it is called.
DownvotedDropped ==
    /\ [](\A h \in DOMAIN mapProposals :
            IsHeavilyDownvoted(mapProposals[h], mnCount)
                <=> DownvotedByCount(mapProposals[h], mnCount))
    /\ [][ret'.op = "NewBlock" =>
            /\ \A h \in Range(ret'.budget) :
                  h \in DOMAIN mapProposals /\ ~DownvotedByCount(mapProposals[h], mnCount)
            /\ ret'.result = "checked" =>
                  /\ \A h \in DOMAIN mapProposals :
                        DownvotedByCount(mapProposals[h], mnCount) => h \in ret'.removed
                  /\ \A h \in DOMAIN mapProposals' :
                        ~DownvotedByCount(mapProposals'[h], mnCount)
                  /\ \A h \in ret'.removed :
                        h \notin DOMAIN mapProposals'
                        \/ mapProposals'[h].mapVotes = EmptyMap]_vars

\* C8's case: the CheckAndRemove of a NewBlock has dropped a heavily downvoted proposal
DownvotedWasDropped ==
    /\ ret.op = "NewBlock"
    /\ ret.removed # {}
    /\ ret.removed \cap DOMAIN mapProposals = {}


-----------------------------------------------------------------------------
(* SpecHistory: IsTransactionValid on the two finalized budgets with CheckAndRemove  *)
(* between the calls; the collateral of both budgets is six blocks deep and 20      *)
(* masternodes are enabled.                                                        *)

InitHistory ==
    /\ \E votesA \in 2..3, votesB \in 0..3, startB \in {PayStart, PayStart + nBudgetCycleBlocks} :
          mapFinalizedBudgets =
             (101 :> [PayBudgetA EXCEPT !.mapVotes = BudgetVotes(101, votesA)])
             @@ (102 :> [PayBudgetB(startB) EXCEPT !.mapVotes = BudgetVotes(102, votesB)])
    /\ mapSeenFinalizedBudgets = DOMAIN mapFinalizedBudgets
    /\ vecImmatureFinalizedBudgets = <<>>
    /\ mapProposals = EmptyMap
    /\ mapSeenProposals = {}
    /\ vecImmatureProposals = <<>>
    /\ IdleVotes /\ IdleSubmit /\ IdleHist /\ IdlePeer /\ IdleThreads /\ IdleSignals
    /\ txConf = [t \in {101, 102} |-> nBudgetFeeConfirmations]
    /\ txTime = [t \in {101, 102} |-> 0]
    /\ nBestHeight = PayStart - 1
    /\ now = 0
    /\ mnCount = 20
    /\ mnKnown = Masternodes
    /\ fSynced = TRUE
    /\ ret = NoRet

\* budget.CheckAndRemove()
CheckAndRemoveStep ==
    /\ mapFinalizedBudgets' =
          CheckAndRemove_Budgets(mapFinalizedBudgets, nBestHeight, txConf, txTime,
                                 [b \in DOMAIN mapFinalizedBudgets |-> FALSE])
    /\ mapProposals' =
          CheckAndRemove_Proposals(mapProposals, nBestHeight, mnCount, txConf, txTime,
                                   [h \in DOMAIN mapProposals |-> 0])
    /\ ret' = [op |-> "CheckAndRemove"]
    /\ UNCHANGED <<mapSeenProposals, vecImmatureProposals, mapSeenFinalizedBudgets,
                   vecImmatureFinalizedBudgets, voteVars, submitVars, nBestHeight, now,
                   mnVars, chainVars, histVars, peerVars, threadVars, signalVars>>

NextHistory == IsTransactionValidStep \/ CheckAndRemoveStep

SpecHistory == InitHistory /\ [][NextHistory]_vars

(* C13: once CFinalizedBudget::IsTransactionValid of a budget of mapFinalizedBudgets has
   looked a proposal up in the payment history at a height of the budget's cycle, every
   later call of it for the same proposal at a height of that cycle returns
   DoublePayment, whatever CheckAndRemove did in between. *)
PaidStaysPaid ==
    [][ret'.op = "IsTransactionValid" =>
        \A i \in DOMAIN ret'.asked :
            \A pair \in PaidPairs(mapFinalizedBudgets, <<ret'.asked[i]>>, ret'.nBlockHeight) :
                pair \in paidChecked => ret'.asked[i].status = "DoublePayment"
      ]_vars


-----------------------------------------------------------------------------
(* SpecCollateral and SpecValidator: the two Add operations and the collateral      *)
(* validator on items that name the transactions of CollateralTxs, while the chain  *)
(* grows.                                                                           *)

CollateralHashes == {1, 2}

\* the proposal and the finalized budget of hash h that name txid as their collateral
CollateralProposal(h, txid) ==
    Proposal(h, MainStart, MainEnd, MinProposalAmount, P2PKH(h), txid, 0)
CollateralBudget(h, txid) ==
    FinalizedBudget(h, "main", MainStart, <<BudgetPayment(h, P2PKH(h), MinProposalAmount)>>,
                    txid, 0)

\* every transaction of CollateralTxs is in the mempool or in the first block
InitCollateral ==
    /\ mapProposals = EmptyMap
    /\ mapSeenProposals = {}
    /\ vecImmatureProposals = <<>>
    /\ mapFinalizedBudgets = EmptyMap
    /\ mapSeenFinalizedBudgets = {}
    /\ vecImmatureFinalizedBudgets = <<>>
    /\ IdleVotes /\ IdleSubmit /\ IdleHist /\ IdlePeer /\ IdleThreads /\ IdleSignals
    /\ \E d \in {0, 1} : txConf = [t \in CollateralTxids |-> d]
    /\ txTime = [t \in CollateralTxids |-> TimeStep]
    /\ nBestHeight = FirstHeight
    /\ now = 0
    /\ mnCount = NumMasternodes
    /\ mnKnown = Masternodes
    /\ fSynced = TRUE
    /\ ret = NoRet

\* IsBudgetCollateralValid(nTxCollateralHash, nExpectedHash, strError, nTime, nConf,
\* fBudgetFinalization) with nTime = 0 and nConf = 0 before the call
IsBudgetCollateralValidStep ==
    \E txid \in CollateralTxids, h \in CollateralHashes, fBudgetFinalization \in BOOLEAN :
        LET r == IsBudgetCollateralValid(txid, h, 0, fBudgetFinalization, txConf, txTime) IN
        /\ ret' = [op |-> "IsBudgetCollateralValid", nTxCollateralHash |-> txid,
                   nExpectedHash |-> h, fBudgetFinalization |-> fBudgetFinalization,
                   ok |-> r.ok, nConf |-> r.nConf, nTime |-> r.nTime]
        /\ UNCHANGED <<propVars, finVars, voteVars, submitVars, nBestHeight, now, mnVars,
                       chainVars, histVars, peerVars, threadVars, signalVars>>

\* budget.AddProposal(proposal)
AddProposalStep ==
    \E txid \in CollateralTxids, h \in CollateralHashes :
        LET r == AddProposal(mapProposals, CollateralProposal(h, txid), nBestHeight, mnCount,
                             txConf, txTime, 0)
        IN
        /\ mapProposals' = r.props
        /\ ret' = [op |-> "AddProposal", nHash |-> h, nFeeTXHash |-> txid, ok |-> r.ok]
        /\ UNCHANGED <<mapSeenProposals, vecImmatureProposals, finVars, voteVars, submitVars,
                       nBestHeight, now, mnVars, chainVars, histVars, peerVars, threadVars, signalVars>>

\* budget.AddFinalizedBudget(finalizedBudget)
AddFinalizedBudgetStep ==
    \E txid \in CollateralTxids, h \in CollateralHashes :
        LET r == AddFinalizedBudget(mapFinalizedBudgets, CollateralBudget(h, txid), nBestHeight,
                                    txConf, txTime)
        IN
        /\ mapFinalizedBudgets' = r.fbs
        /\ ret' = [op |-> "AddFinalizedBudget", nHash |-> h, nFeeTXHash |-> txid, ok |-> r.ok]
        /\ UNCHANGED <<mapSeenFinalizedBudgets, vecImmatureFinalizedBudgets, propVars, voteVars,
                       submitVars, nBestHeight, now, mnVars, chainVars, histVars, peerVars, threadVars, signalVars>>

\* a block is connected: the transactions of the mempool are mined, the others are one
\* block deeper; depths past nBudgetFeeConfirmations are not told apart
CollateralBlockStep ==
    /\ \E t \in DOMAIN txConf : txConf[t] < nBudgetFeeConfirmations
    /\ txConf' = [t \in DOMAIN txConf |->
                     IF txConf[t] < nBudgetFeeConfirmations THEN txConf[t] + 1 ELSE txConf[t]]
    /\ ret' = [op |-> "Block"]
    /\ UNCHANGED <<propVars, finVars, voteVars, submitVars, nBestHeight, now, mnVars, txTime,
                   histVars, peerVars, threadVars, signalVars>>

\* SpecCollateral: the items enter the active sets and are checked again
NextCollateral ==
    \/ AddProposalStep
    \/ AddFinalizedBudgetStep
    \/ CollateralBlockStep
    \/ CheckAndRemoveStep

SpecCollateral == InitCollateral /\ [][NextCollateral]_vars

\* SpecValidator: the validator alone, at every depth of the transactions
NextValidator == IsBudgetCollateralValidStep \/ CollateralBlockStep

SpecValidator == InitCollateral /\ [][NextValidator]_vars

\* transaction txid, conf[txid] blocks deep, commits to hash with at least fee
CommitsAndPays(txid, hash, fee, conf) ==
    /\ ChainTx(txid).found
    /\ conf[txid] >= nBudgetFeeConfirmations
    /\ \E i \in DOMAIN ChainTx(txid).vout :
          /\ ChainTx(txid).vout[i].scriptPubKey = OpReturn(hash)
          /\ ChainTx(txid).vout[i].nValue >= fee

(* C15: every proposal of mapProposals and every finalized budget of
   mapFinalizedBudgets names a collateral transaction that is at least
   nBudgetFeeConfirmations blocks deep and has an OP_RETURN output that commits to the
   item's hash and pays at least PROPOSAL_FEE_TX, for a budget BUDGET_FEE_TX. *)
ActiveHaveCollateral ==
    /\ \A h \in DOMAIN mapProposals :
          CommitsAndPays(mapProposals[h].nFeeTXHash, h, PROPOSAL_FEE_TX, txConf)
    /\ \A b \in DOMAIN mapFinalizedBudgets :
          CommitsAndPays(mapFinalizedBudgets[b].nFeeTXHash, b, BUDGET_FEE_TX, txConf)

\* C15's case: a finalized budget is active whose collateral pays the finalization fee
\* only, and a proposal naming the same transaction was just turned down
ActiveAfterRejection ==
    /\ ret.op = "AddProposal"
    /\ ~ret.ok
    /\ ret.nHash \notin DOMAIN mapProposals
    /\ \E b \in DOMAIN mapFinalizedBudgets :
          /\ mapFinalizedBudgets[b].nFeeTXHash = ret.nFeeTXHash
          /\ b = ret.nHash
    /\ mapProposals # EmptyMap

(* C16: IsBudgetCollateralValid accepts iff the transaction is found, has an output,
   has lock time 0, has only outputs that are normal payment scripts or unspendable,
   has an output OP_RETURN nExpectedHash of at least the fee of the kind of item, and
   is at least nBudgetFeeConfirmations blocks deep; when one of the conditions before
   the depth fails the nConf of the caller is 0 after the call. *)
CollateralValidIff ==
    ret.op = "IsBudgetCollateralValid" =>
        LET tx == ChainTx(ret.nTxCollateralHash)
            fee == IF ret.fBudgetFinalization THEN BUDGET_FEE_TX ELSE PROPOSAL_FEE_TX
            shape == /\ tx.found
                     /\ Len(tx.vout) >= 1
                     /\ tx.nLockTime = 0
                     /\ \A i \in DOMAIN tx.vout :
                           tx.vout[i].scriptPubKey.type \in {"P2PKH", "OP_RETURN"}
                     /\ \E i \in DOMAIN tx.vout :
                           /\ tx.vout[i].scriptPubKey = OpReturn(ret.nExpectedHash)
                           /\ tx.vout[i].nValue >= fee
        IN /\ ret.ok <=> (shape /\ txConf[ret.nTxCollateralHash] >= nBudgetFeeConfirmations)
           /\ ~shape => ret.nConf = 0

\* C16's case: the transaction pays exactly the finalization fee to the commitment, in
\* its second output, and is accepted for a finalized budget
CollateralExactFee ==
    /\ ret.op = "IsBudgetCollateralValid"
    /\ ret.fBudgetFinalization
    /\ ret.ok
    /\ ret.nConf = nBudgetFeeConfirmations
    /\ ChainTx(ret.nTxCollateralHash).vout[2] = TxOut(OpReturn(ret.nExpectedHash), BUDGET_FEE_TX)

----------------------------------------------------------------------------
\* The vote handlers observed: the same ProcessMessage branches as MsgBudgetVote and
\* MsgFinalBudgetVote, with the signature outcome drawn, the outcome of the message
\* recorded in ret, and the pushes and the parked votes recorded in pushedAt and
\* parkedVotes.

MaxVoteMessages == 2
MaxAskTicks == 3
AskTimeStep == 12 * 60 * 60
StepVoters == Masternodes \cup {NumMasternodes + 1}

VoteRet(op, vote, fSignature, synced, r) ==
    [op |-> op, vote |-> vote, fSignature |-> fSignature, synced |-> synced,
     stored |-> r.stored, relayed |-> r.relayed, misbehaving |-> r.misbehaving,
     pushed |-> r.pushed, parked |-> r.parked]

VoteOps == {"BudgetVote", "FinalBudgetVote"}

TargetOf(vote) ==
    IF "nProposalHash" \in DOMAIN vote THEN vote.nProposalHash ELSE vote.nBudgetHash

VoteMessagesLeft ==
    Cardinality(mapSeenProposalVotes) + Cardinality(mapSeenFinalizedBudgetVotes)
        + Cardinality(parkedVotes \ (mapSeenProposalVotes \cup mapSeenFinalizedBudgetVotes))
        < MaxVoteMessages

Pushed(times, h, time) ==
    Put(times, h, IF h \in DOMAIN times THEN Append(times[h], time) ELSE <<time>>)

\* ProcessMessage, strCommand == NetMsgType::BUDGETVOTE
BudgetVoteStep ==
    \E mn \in StepVoters, h \in ProposalHashes, fSignature \in BOOLEAN :
        LET vote == BudgetVote(mn, h, "YES", now) IN
        /\ ProcessMessageRuns
        /\ VoteMessagesLeft
        /\ (vote \in mapSeenProposalVotes \/ mn \notin mnKnown) => fSignature
        /\ \E r \in {ProcessBudgetVote(mapSeenProposalVotes, mapProposals,
                                        mapOrphanProposalVotes, askedForSourceProposalOrBudget,
                                        vote, fSignature, mnKnown, fSynced, now)} :
              /\ mapSeenProposalVotes' = r.seen
              /\ mapProposals' = r.props
              /\ mapOrphanProposalVotes' = r.orphans
              /\ askedForSourceProposalOrBudget' = r.asked
              /\ pushedAt' = IF r.pushed THEN Pushed(pushedAt, h, now) ELSE pushedAt
              /\ parkedVotes' = IF r.parked THEN parkedVotes \cup {vote} ELSE parkedVotes
              /\ ret' = VoteRet("BudgetVote", vote, fSignature, fSynced, r)
        /\ UNCHANGED <<mapSeenProposals, vecImmatureProposals, mapSeenFinalizedBudgetVotes,
                       mapOrphanFinalizedBudgetVotes, finVars, submitVars, nBestHeight, now,
                       mnVars, chainVars, removedDownvoted, paidChecked, autoChecked,
                       peerVars, threadVars, signalVars>>

\* ProcessMessage, strCommand == NetMsgType::FINALBUDGETVOTE
FinalBudgetVoteStep ==
    \E mn \in StepVoters, b \in BudgetHashes, fSignature \in BOOLEAN :
        LET vote == FinalizedBudgetVote(mn, b, now) IN
        /\ ProcessMessageRuns
        /\ VoteMessagesLeft
        /\ (vote \in mapSeenFinalizedBudgetVotes \/ mn \notin mnKnown) => fSignature
        /\ \E r \in {ProcessFinalBudgetVote(mapSeenFinalizedBudgetVotes, mapFinalizedBudgets,
                                             mapOrphanFinalizedBudgetVotes,
                                             askedForSourceProposalOrBudget,
                                             vote, fSignature, mnKnown, fSynced, now)} :
              /\ mapSeenFinalizedBudgetVotes' = r.seen
              /\ mapFinalizedBudgets' = r.fbs
              /\ mapOrphanFinalizedBudgetVotes' = r.orphans
              /\ askedForSourceProposalOrBudget' = r.asked
              /\ pushedAt' = IF r.pushed THEN Pushed(pushedAt, b, now) ELSE pushedAt
              /\ parkedVotes' = IF r.parked THEN parkedVotes \cup {vote} ELSE parkedVotes
              /\ ret' = VoteRet("FinalBudgetVote", vote, fSignature, fSynced, r)
        /\ UNCHANGED <<mapSeenFinalizedBudgets, vecImmatureFinalizedBudgets,
                       mapSeenProposalVotes, mapOrphanProposalVotes, propVars, submitVars,
                       nBestHeight, now, mnVars, chainVars, removedDownvoted, paidChecked,
                       autoChecked, peerVars, threadVars, signalVars>>

----------------------------------------------------------------------------
\* The ask throttle: votes for targets the node does not have, on a synced node, with
\* the clock moving in steps of twelve hours and the blocks of NewBlock, whose
\* CheckAndRemove heights clean askedForSourceProposalOrBudget.

InitAsk ==
    /\ mapProposals = EmptyMap
    /\ mapSeenProposals = {}
    /\ vecImmatureProposals = <<>>
    /\ mapFinalizedBudgets = EmptyMap
    /\ mapSeenFinalizedBudgets = {}
    /\ vecImmatureFinalizedBudgets = <<>>
    /\ IdleVotes /\ IdleSubmit /\ IdleHist /\ IdlePeer /\ IdleThreads /\ IdleSignals
    /\ txConf = [t \in Txids |-> -1]
    /\ txTime = [t \in Txids |-> 0]
    /\ nBestHeight = FirstHeight - 1
    /\ now = 0
    /\ mnCount = NumMasternodes
    /\ mnKnown = Masternodes
    /\ fSynced = TRUE
    /\ ret = NoRet

AskClockStep ==
    /\ now < MaxAskTicks * AskTimeStep
    /\ now' = now + AskTimeStep
    /\ ret' = NoRet
    /\ UNCHANGED <<propVars, finVars, voteVars, submitVars, nBestHeight, mnVars, chainVars,
                   histVars, peerVars, threadVars, signalVars>>

NextAsk ==
    \/ BudgetVoteStep
    \/ FinalBudgetVoteStep
    \/ NewBlock
    \/ AskClockStep

SpecAsk == InitAsk /\ [][NextAsk]_vars

\* C17: for every target hash, any two BUDGETVOTESYNC requests pushed for it lie at
\* least 24 hours apart, whichever peers and voters the votes came from; an entry of
\* the throttle map is dropped, and the hash can be asked for again, only when the
\* entry is at least 24 hours old.
AskThrottled ==
    [][/\ \A h \in DOMAIN pushedAt' :
            \A i \in 1..Len(pushedAt'[h]), j \in 1..Len(pushedAt'[h]) :
                i < j => pushedAt'[h][j] - pushedAt'[h][i] >= 60 * 60 * 24
       /\ \A h \in DOMAIN askedForSourceProposalOrBudget :
            h \notin DOMAIN askedForSourceProposalOrBudget'
                => now - askedForSourceProposalOrBudget[h] >= 60 * 60 * 24]_vars

AskedAgainAfterADay ==
    \E h \in DOMAIN pushedAt :
        /\ Len(pushedAt[h]) = 2
        /\ ret.op \in VoteOps /\ ret.pushed /\ TargetOf(ret.vote) = h

----------------------------------------------------------------------------
\* Orphan votes and bad signatures: the vote handlers with the proposal and the
\* finalized budget arriving from peers, their collateral deep enough, on a node that
\* finishes its sync at some point.

InitOrphan ==
    /\ mapProposals = EmptyMap
    /\ mapSeenProposals = {}
    /\ vecImmatureProposals = <<>>
    /\ mapFinalizedBudgets = EmptyMap
    /\ mapSeenFinalizedBudgets = {}
    /\ vecImmatureFinalizedBudgets = <<>>
    /\ IdleVotes /\ IdleSubmit /\ IdleHist /\ IdlePeer /\ IdleThreads /\ IdleSignals
    /\ txConf = [t \in Txids |-> nBudgetFeeConfirmations]
    /\ txTime = [t \in Txids |-> 0]
    /\ nBestHeight = FirstHeight - 1
    /\ now = 0
    /\ mnCount = NumMasternodes
    /\ mnKnown = Masternodes
    /\ fSynced \in BOOLEAN
    /\ ret = NoRet

NextOrphan ==
    \/ BudgetVoteStep
    \/ FinalBudgetVoteStep
    \/ MsgBudgetProposal
    \/ MsgFinalBudget
    \/ SyncFinished

SpecOrphan == InitOrphan /\ [][NextOrphan]_vars

\* C18: when a proposal or a finalized budget H is accepted from a peer message,
\* every vote that was parked in the orphan map because H was missing is in H's vote
\* map, under its voter, and the orphan map holds nothing for H any more.
OrphansReconciled ==
    [][\A v \in parkedVotes :
          /\ ("nProposalHash" \in DOMAIN v
                /\ v.nProposalHash \notin DOMAIN mapProposals
                /\ v.nProposalHash \in DOMAIN mapProposals')
             => /\ v.vin \in DOMAIN mapProposals'[v.nProposalHash].mapVotes
                /\ mapProposals'[v.nProposalHash].mapVotes[v.vin].nTime = v.nTime
                /\ v.nProposalHash \notin DOMAIN mapOrphanProposalVotes'
          /\ ("nBudgetHash" \in DOMAIN v
                /\ v.nBudgetHash \notin DOMAIN mapFinalizedBudgets
                /\ v.nBudgetHash \in DOMAIN mapFinalizedBudgets')
             => /\ v.vin \in DOMAIN mapFinalizedBudgets'[v.nBudgetHash].mapVotes
                /\ mapFinalizedBudgets'[v.nBudgetHash].mapVotes[v.vin].nTime = v.nTime
                /\ v.nBudgetHash \notin DOMAIN mapOrphanFinalizedBudgetVotes']_vars

\* C19: a proposal vote or a finalized-budget vote whose signature check fails is not
\* stored (no vote map and no orphan map changes) and not relayed, and the sending
\* peer's ban score is raised by 20 when the node is synced and by nothing when it is
\* still syncing.
BadSignatureDropped ==
    [][(ret'.op \in VoteOps /\ ~ret'.fSignature) =>
          /\ ~ret'.stored /\ ~ret'.relayed /\ ~ret'.parked
          /\ UNCHANGED <<mapProposals, mapFinalizedBudgets, mapOrphanProposalVotes,
                         mapOrphanFinalizedBudgetVotes>>
          /\ ret'.misbehaving = IF fSynced THEN 20 ELSE 0]_vars

BadSignatureBanned ==
    /\ ret.op \in VoteOps /\ ~ret.fSignature
    /\ TargetOf(ret.vote) \in DOMAIN mapProposals \cup DOMAIN mapFinalizedBudgets
    /\ ret.misbehaving = 20

----------------------------------------------------------------------------
\* The sync request: BUDGETVOTESYNC messages from two peers, for everything (the null
\* hash) or for one target, while proposals and finalized budgets arrive.

NumPeers == 2
MaxSyncRequests == 3
Peers == 1..NumPeers

\* CBudgetProposal::SyncVotes and CFinalizedBudget::SyncVotes with fPartial false: the
\* votes whose inventory is pushed
SyncVotes(obj) == {mn \in DOMAIN obj.mapVotes : obj.mapVotes[mn].fValid}

\* CBudgetManager::Sync: the inventories pushed to the peer and the two counts sent
\* with SYNCSTATUSCOUNT
Sync(seenProps, props, seenFbs, fbs, nProp) ==
    LET sentProps == {h \in seenProps : h \in DOMAIN props /\ props[h].fValid
                                        /\ (nProp = 0 \/ h = nProp)}
        sentFbs == {b \in seenFbs : b \in DOMAIN fbs /\ fbs[b].fValid
                                    /\ (nProp = 0 \/ b = nProp)}
        Count(objs, sent) ==
            Cardinality(sent) + Cardinality({<<h, mn>> \in sent \X StepVoters :
                                                 mn \in SyncVotes(objs[h])})
    IN [props |-> sentProps, fbs |-> sentFbs,
        nPropCount |-> Count(props, sentProps), nFinCount |-> Count(fbs, sentFbs)]

NoSync == [props |-> {}, fbs |-> {}, nPropCount |-> -1, nFinCount |-> -1]

ProcessBudgetVoteSync_NeverFulfilled(fulfilled, peer, nProp, seenProps, props, seenFbs, fbs) ==
    IF NetworkID = "main" /\ nProp = 0 /\ peer \in fulfilled
    THEN [fulfilled |-> fulfilled, served |-> FALSE, misbehaving |-> 20, sent |-> NoSync]
    ELSE [fulfilled |-> fulfilled, served |-> TRUE, misbehaving |-> 0,
          sent |-> Sync(seenProps, props, seenFbs, fbs, nProp)]

\* ProcessMessage, strCommand == NetMsgType::BUDGETVOTESYNC
ProcessBudgetVoteSync(fulfilled, peer, nProp, seenProps, props, seenFbs, fbs) ==
    IF NetworkID = "main" /\ nProp = 0 /\ peer \in fulfilled
    THEN [fulfilled |-> fulfilled, served |-> FALSE, misbehaving |-> 20, sent |-> NoSync]
    ELSE [fulfilled |-> IF NetworkID = "main" /\ nProp = 0 THEN fulfilled \cup {peer}
                        ELSE fulfilled,
          served |-> TRUE, misbehaving |-> 0,
          sent |-> Sync(seenProps, props, seenFbs, fbs, nProp)]

FullRequests(requests, peer) == IF peer \in DOMAIN requests THEN requests[peer] ELSE 0

BudgetVoteSyncStep ==
    \E peer \in Peers, nProp \in {0} \cup ProposalHashes \cup BudgetHashes :
        /\ ProcessMessageRuns
        /\ FullRequests(fullSyncRequests, peer) < MaxSyncRequests
        /\ \E r \in {ProcessBudgetVoteSync(fulfilledRequest, peer, nProp, mapSeenProposals,
                                            mapProposals, mapSeenFinalizedBudgets,
                                            mapFinalizedBudgets)} :
              /\ fulfilledRequest' = r.fulfilled
              /\ ret' = [op |-> "BudgetVoteSync", peer |-> peer, nProp |-> nProp,
                         served |-> r.served, misbehaving |-> r.misbehaving,
                         sent |-> r.sent]
        /\ fullSyncRequests' =
              IF nProp = 0
              THEN Put(fullSyncRequests, peer, FullRequests(fullSyncRequests, peer) + 1)
              ELSE fullSyncRequests
        /\ UNCHANGED <<propVars, finVars, voteVars, submitVars, nBestHeight, now, mnVars,
                       chainVars, histVars, threadVars, signalVars>>

NextSync ==
    \/ BudgetVoteSyncStep
    \/ MsgBudgetProposal
    \/ MsgFinalBudget
    \/ BudgetVoteStep

SpecSync == InitOrphan /\ [][NextSync]_vars

\* C20: on the main network the first BUDGETVOTESYNC with the null hash a peer sends
\* is served by Sync; every later one from that peer is not served and raises the
\* peer's ban score by 20; a request that names a target hash is served whatever the
\* peer asked before.
FullSyncOnce ==
    [][ret'.op = "BudgetVoteSync" =>
          /\ ret'.served = (ret'.misbehaving = 0)
          /\ ret'.misbehaving \in {0, 20}
          /\ ret'.served =>
                ret'.sent = Sync(mapSeenProposals, mapProposals, mapSeenFinalizedBudgets,
                                 mapFinalizedBudgets, ret'.nProp)
          /\ ret'.nProp # 0 => ret'.served
          /\ (ret'.nProp = 0 /\ fullSyncRequests' # fullSyncRequests) =>
                ret'.served = (FullRequests(fullSyncRequests, ret'.peer) = 0)]_vars

FullSyncRefused ==
    /\ ret.op = "BudgetVoteSync" /\ ret.nProp = 0
    /\ ~ret.served /\ ret.misbehaving = 20
    /\ fullSyncRequests[ret.peer] = 2
    /\ mapProposals # EmptyMap

----------------------------------------------------------------------------
\* CBudgetDB: the file budget.dat.  A stream is a sequence of tokens, one per value
\* written with operator<<; Hash is taken as injective.

strMagicMessage == "MasternodeBudget"
MessageStart == NetworkID

Token(field, value) == [field |-> field, value |-> value]
\* a token that is not the one the reader expects
GarbageToken(token) == Token("garbage", token.value)

Hash(stream) == [hashOf |-> stream]

\* the members CBudgetManager serializes, in the order of its SerializationOp
ManagerFields ==
    <<"mapProposals", "mapSeenProposals", "mapSeenProposalVotes", "mapOrphanProposalVotes",
      "mapFinalizedBudgets", "mapSeenFinalizedBudgets", "mapSeenFinalizedBudgetVotes",
      "mapOrphanFinalizedBudgetVotes">>

\* CBudgetManager::Clear
ClearedManager ==
    [mapProposals |-> EmptyMap, mapSeenProposals |-> {}, mapSeenProposalVotes |-> {},
     mapOrphanProposalVotes |-> EmptyMap, mapFinalizedBudgets |-> EmptyMap,
     mapSeenFinalizedBudgets |-> {}, mapSeenFinalizedBudgetVotes |-> {},
     mapOrphanFinalizedBudgetVotes |-> EmptyMap]

\* the serialized members of the manager the variables hold
Manager ==
    [mapProposals |-> mapProposals, mapSeenProposals |-> mapSeenProposals,
     mapSeenProposalVotes |-> mapSeenProposalVotes,
     mapOrphanProposalVotes |-> mapOrphanProposalVotes,
     mapFinalizedBudgets |-> mapFinalizedBudgets,
     mapSeenFinalizedBudgets |-> mapSeenFinalizedBudgets,
     mapSeenFinalizedBudgetVotes |-> mapSeenFinalizedBudgetVotes,
     mapOrphanFinalizedBudgetVotes |-> mapOrphanFinalizedBudgetVotes]

\* ssObj << objToSave
SerializeManager(m) ==
    [i \in 1..Len(ManagerFields) |-> Token(ManagerFields[i], m[ManagerFields[i]])]

\* ssObj >> objToLoad: the members are read in place, one after the other; a token
\* that is missing or is not the member's throws, with the members before it replaced
RECURSIVE UnserializeManager(_, _, _)
UnserializeManager(stream, m, i) ==
    IF i > Len(ManagerFields) THEN [ok |-> TRUE, obj |-> m]
    ELSE IF i > Len(stream) \/ stream[i].field # ManagerFields[i]
    THEN [ok |-> FALSE, obj |-> m]
    ELSE UnserializeManager(stream, [m EXCEPT ![ManagerFields[i]] = stream[i].value], i + 1)

DBFile(stream) == [open |-> TRUE, data |-> stream, hash |-> Hash(stream)]
NoFile == [open |-> FALSE, data |-> <<>>, hash |-> Hash(<<>>)]

\* CBudgetDB::Write
CBudgetDB_Write(objToSave) ==
    DBFile(<<Token("magic", strMagicMessage), Token("net", MessageStart)>>
               \o SerializeManager(objToSave))

\* CBudgetManager::CheckAndRemove on the members of a manager
Manager_CheckAndRemove(m, nCurrentHeight, enabled, conf, time) ==
    [m EXCEPT !.mapFinalizedBudgets =
                  CheckAndRemove_Budgets(m.mapFinalizedBudgets, nCurrentHeight, conf, time,
                                         [b \in DOMAIN m.mapFinalizedBudgets |-> FALSE]),
              !.mapProposals =
                  CheckAndRemove_Proposals(m.mapProposals, nCurrentHeight, enabled, conf, time,
                                           [h \in DOMAIN m.mapProposals |-> 0])]

CBudgetDB_Read_NoClear(file, objToLoad, fDryRun, nCurrentHeight, enabled, conf, time) ==
    LET data == file.data
        body == SubSeq(data, 3, Len(data))
        loaded == UnserializeManager(body, objToLoad, 1)
    IN IF ~file.open THEN [result |-> "FileError", obj |-> objToLoad]
       ELSE IF file.hash # Hash(data) THEN [result |-> "IncorrectHash", obj |-> objToLoad]
       ELSE IF Len(data) < 1 THEN [result |-> "IncorrectFormat", obj |-> objToLoad]
       ELSE IF data[1] # Token("magic", strMagicMessage)
       THEN [result |-> "IncorrectMagicMessage", obj |-> objToLoad]
       ELSE IF Len(data) < 2 THEN [result |-> "IncorrectFormat", obj |-> objToLoad]
       ELSE IF data[2] # Token("net", MessageStart)
       THEN [result |-> "IncorrectMagicNumber", obj |-> objToLoad]
       ELSE IF ~loaded.ok THEN [result |-> "IncorrectFormat", obj |-> loaded.obj]
       ELSE [result |-> "Ok",
             obj |-> IF fDryRun THEN loaded.obj
                     ELSE Manager_CheckAndRemove(loaded.obj, nCurrentHeight, enabled, conf,
                                                 time)]

\* CBudgetDB::Read
CBudgetDB_Read(file, objToLoad, fDryRun, nCurrentHeight, enabled, conf, time) ==
    LET data == file.data
        body == SubSeq(data, 3, Len(data))
        loaded == UnserializeManager(body, objToLoad, 1)
    IN IF ~file.open THEN [result |-> "FileError", obj |-> objToLoad]
       ELSE IF file.hash # Hash(data) THEN [result |-> "IncorrectHash", obj |-> objToLoad]
       ELSE IF Len(data) < 1 THEN [result |-> "IncorrectFormat", obj |-> ClearedManager]
       ELSE IF data[1] # Token("magic", strMagicMessage)
       THEN [result |-> "IncorrectMagicMessage", obj |-> objToLoad]
       ELSE IF Len(data) < 2 THEN [result |-> "IncorrectFormat", obj |-> ClearedManager]
       ELSE IF data[2] # Token("net", MessageStart)
       THEN [result |-> "IncorrectMagicNumber", obj |-> objToLoad]
       ELSE IF ~loaded.ok THEN [result |-> "IncorrectFormat", obj |-> ClearedManager]
       ELSE [result |-> "Ok",
             obj |-> IF fDryRun THEN loaded.obj
                     ELSE Manager_CheckAndRemove(loaded.obj, nCurrentHeight, enabled, conf,
                                                 time)]

\* the files a read can find: what Write left for some manager, with a magic string or
\* a network tag of another program or network, cut short, with a member overwritten,
\* and each of these with a hash that is not the hash of the data
OtherMagic == "MasternodeCache"
OtherNetwork == "test"

DamagedStreams(stream) ==
    {stream,
     [stream EXCEPT ![1] = Token("magic", OtherMagic)],
     [stream EXCEPT ![2] = Token("net", OtherNetwork)]}
    \cup {SubSeq(stream, 1, k) : k \in {0, 1, 2, Len(stream) - 1}}
    \cup {[stream EXCEPT ![k] = GarbageToken(stream[k])] : k \in {3, Len(stream)}}

DamagedFiles(file) ==
    {NoFile}
    \cup {DBFile(s) : s \in DamagedStreams(file.data)}
    \cup {[open |-> TRUE, data |-> s, hash |-> Hash(<<Token("magic", OtherMagic)>>)] :
             s \in DamagedStreams(file.data)}

SavedManagers ==
    {ClearedManager,
     [ClearedManager EXCEPT !.mapProposals = Put(EmptyMap, 1, MainProposal(1)),
                            !.mapSeenProposals = {1}]}

\* CBudgetDB::Read into the manager
ReadStep ==
    \E saved \in SavedManagers \cup {Manager}, fDryRun \in BOOLEAN :
      \E file \in DamagedFiles(CBudgetDB_Write(saved)) :
        \E r \in {CBudgetDB_Read(file, Manager, fDryRun, nBestHeight, mnCount, txConf,
                                 txTime)} :
           /\ mapProposals' = r.obj.mapProposals
           /\ mapSeenProposals' = r.obj.mapSeenProposals
           /\ mapSeenProposalVotes' = r.obj.mapSeenProposalVotes
           /\ mapOrphanProposalVotes' = r.obj.mapOrphanProposalVotes
           /\ mapFinalizedBudgets' = r.obj.mapFinalizedBudgets
           /\ mapSeenFinalizedBudgets' = r.obj.mapSeenFinalizedBudgets
           /\ mapSeenFinalizedBudgetVotes' = r.obj.mapSeenFinalizedBudgetVotes
           /\ mapOrphanFinalizedBudgetVotes' = r.obj.mapOrphanFinalizedBudgetVotes
           /\ ret' = [op |-> "Read", file |-> file, fDryRun |-> fDryRun,
                      result |-> r.result]
           /\ UNCHANGED <<vecImmatureProposals, vecImmatureFinalizedBudgets,
                          askedForSourceProposalOrBudget, submitVars, nBestHeight, now,
                          mnVars, chainVars, histVars, peerVars, threadVars, signalVars>>

NextDB ==
    \/ ReadStep
    \/ MsgBudgetProposal
    \/ MsgFinalBudget
    \/ BudgetVoteStep

SpecDB == InitOrphan /\ [][NextDB]_vars

HashMatches(file) == file.hash = Hash(file.data)
MagicDiffers(file) == Len(file.data) >= 1 /\ file.data[1].value # strMagicMessage
NetworkDiffers(file) == Len(file.data) >= 2 /\ file.data[2].value # MessageStart
StateDecodes(file) ==
    /\ Len(file.data) = 2 + Len(ManagerFields)
    /\ \A i \in 1..Len(ManagerFields) : file.data[2 + i].field = ManagerFields[i]

\* C21: a read whose trailing hash does not match, whose magic string differs or whose
\* network tag differs returns the matching error and leaves the manager as it was; a
\* read whose hash, magic string and network tag are right and whose manager state
\* does not decode returns IncorrectFormat and leaves the manager cleared.
ReadRefusesOrClears ==
    [][(ret'.op = "Read" /\ ret'.file.open) =>
          LET file == ret'.file IN
          /\ ~HashMatches(file) => ret'.result = "IncorrectHash" /\ Manager' = Manager
          /\ (HashMatches(file) /\ MagicDiffers(file)) =>
                ret'.result = "IncorrectMagicMessage" /\ Manager' = Manager
          /\ (HashMatches(file) /\ Len(file.data) >= 1 /\ ~MagicDiffers(file)
                /\ NetworkDiffers(file)) =>
                ret'.result = "IncorrectMagicNumber" /\ Manager' = Manager
          /\ (HashMatches(file) /\ Len(file.data) >= 2 /\ ~MagicDiffers(file)
                /\ ~NetworkDiffers(file) /\ ~StateDecodes(file)) =>
                ret'.result = "IncorrectFormat" /\ Manager' = ClearedManager]_vars

ReadClearedManager ==
    /\ ret.op = "Read" /\ ret.result = "IncorrectFormat"
    /\ Len(ret.file.data) = 2 + Len(ManagerFields)
    /\ ret.file.data[3].field = "mapProposals"
    /\ ret.file.data[3].value # EmptyMap
    /\ Manager = ClearedManager

----------------------------------------------------------------------------
\* The automatic vote of a masternode: CheckAndRemove on a node started with
\* -masternode=1 and -budgetvotemode=auto, its activeMasternode.vin set.

MaxLatchTicks == 2
ActiveVin == 1

RECURSIVE Descending(_)
Descending(S) ==
    IF S = {} THEN <<>>
    ELSE LET m == CHOOSE x \in S : \A y \in S : x >= y
         IN <<m>> \o Descending(S \ {m})

\* std::sort with std::greater<CTxBudgetPayment>: by proposal hash, descending.  Of the
\* payments of one proposal hash the one first in payments is put first; the tests that
\* follow fail on such payments whatever their order.
RECURSIVE PaymentsSortedByHash(_)
PaymentsSortedByHash(payments) ==
    IF payments = <<>> THEN <<>>
    ELSE LET top == CHOOSE i \in DOMAIN payments :
                       /\ \A j \in DOMAIN payments :
                             payments[i].nProposalHash >= payments[j].nProposalHash
                       /\ \A j \in 1..(i - 1) :
                             payments[j].nProposalHash # payments[i].nProposalHash
         IN <<payments[top]>>
            \o PaymentsSortedByHash(SubSeq(payments, 1, top - 1)
                                    \o SubSeq(payments, top + 1, Len(payments)))

\* A mutation of the tests of CheckAndVote: the amounts are not compared
BudgetMatches_NoAmount(payments, props, budget) ==
    LET sortedProps == Descending(Range(budget))
        sortedPays == PaymentsSortedByHash(payments)
    IN /\ Len(sortedProps) # 0
       /\ Len(sortedProps) = Len(sortedPays)
       /\ \A i \in DOMAIN sortedPays :
             /\ sortedPays[i].nProposalHash = sortedProps[i]
             /\ sortedPays[i].payee = props[sortedProps[i]].address

\* the tests of CheckAndVote between GetBudget and SubmitVote
BudgetMatches(payments, props, budget) ==
    LET sortedProps == Descending(Range(budget))
        sortedPays == PaymentsSortedByHash(payments)
    IN /\ Len(sortedProps) # 0
       /\ Len(sortedProps) = Len(sortedPays)
       /\ \A i \in DOMAIN sortedPays :
             /\ sortedPays[i].nProposalHash = sortedProps[i]
             /\ sortedPays[i].payee = props[sortedProps[i]].address
             /\ sortedPays[i].nAmount = props[sortedProps[i]].nAmount

\* CFinalizedBudget::SubmitVote, on the budget fb of the manager
SubmitVote(fb, seen, vin, time) ==
    LET vote == FinalizedBudgetVote(vin, fb.nHash, time)
        r == CFinalizedBudget_AddOrUpdateVote(fb, vote, time)
    IN IF r.ok THEN [obj |-> r.obj, seen |-> seen \cup {vote}, voted |-> TRUE]
       ELSE [obj |-> fb, seen |-> seen, voted |-> FALSE]

\* CFinalizedBudget::CheckAndVote.  fired: the call went past its early returns and
\* set fAutoChecked; voted: SubmitVote stored a vote.
CheckAndVote(fb, props, seen, masterNode, fActive, mode, fDraw, nHeight, count, known, time, order) ==
    LET same == [obj |-> fb, props |-> props, seen |-> seen, fired |-> FALSE,
                 voted |-> FALSE]
        latched == [fb EXCEPT !.fAutoChecked = TRUE]
        budget == GetBudget(props, nHeight, count, known, time, order)
        submit == SubmitVote(latched, seen, ActiveVin, time)
    IN IF ~masterNode \/ fb.fAutoChecked THEN same
       ELSE IF ~fActive THEN same
       ELSE IF ~fDraw THEN same
       ELSE IF mode # "auto" THEN [same EXCEPT !.obj = latched, !.fired = TRUE]
       ELSE IF ~BudgetMatches(fb.vecBudgetPayments, budget.props, budget.budget)
       THEN [same EXCEPT !.obj = latched, !.props = budget.props, !.fired = TRUE]
       ELSE [obj |-> submit.obj, props |-> budget.props, seen |-> submit.seen,
             fired |-> TRUE, voted |-> submit.voted]

\* the first loop of CBudgetManager::CheckAndRemove on a masternode: UpdateValid,
\* CheckAndVote and the copy into the temporary map, budget after budget
RECURSIVE CheckAndRemove_BudgetsVoting(_, _, _, _, _, _, _, _, _, _, _, _)
CheckAndRemove_BudgetsVoting(todo, fbs, tmp, props, seen, fired, voted, fDraw, nHeight, count, known, env) ==
    IF todo = <<>>
    THEN [fbs |-> tmp, props |-> props, seen |-> seen, fired |-> fired, voted |-> voted]
    ELSE LET b == Head(todo)
             valid == Budget_UpdateValid(fbs[b], nHeight, env.conf, env.txTime)
             r == CheckAndVote(valid.obj, props, seen, TRUE, TRUE, "auto", fDraw[b], nHeight,
                               count, known, env.time, env.order)
         IN IF ~valid.ok
            THEN CheckAndRemove_BudgetsVoting(Tail(todo), fbs, tmp, props, seen, fired, voted,
                                              fDraw, nHeight, count, known, env)
            ELSE CheckAndRemove_BudgetsVoting(
                     Tail(todo), fbs, Put(tmp, b, Budget_Copy(r.obj)), r.props, r.seen,
                     IF r.fired THEN fired \cup {b} ELSE fired,
                     IF r.voted THEN voted \cup {b} ELSE voted,
                     fDraw, nHeight, count, known, env)

InitLatch ==
    /\ \E yes \in 0..NumMasternodes :
          mapProposals = Put(EmptyMap, 1, [MainProposal(1) EXCEPT !.mapVotes = YesVotes(1, yes)])
    /\ mapSeenProposals = {1}
    /\ vecImmatureProposals = <<>>
    /\ \E fbs \in SUBSET PeerBudgets :
          mapFinalizedBudgets = [b \in {fb.nHash : fb \in fbs} |->
                                    CHOOSE fb \in fbs : fb.nHash = b]
    /\ mapSeenFinalizedBudgets = DOMAIN mapFinalizedBudgets
    /\ vecImmatureFinalizedBudgets = <<>>
    /\ IdleVotes /\ IdleSubmit /\ IdleHist /\ IdlePeer /\ IdleThreads /\ IdleSignals
    /\ txConf = [t \in Txids |-> nBudgetFeeConfirmations]
    /\ txTime = [t \in Txids |-> 0]
    /\ nBestHeight = FirstHeight
    /\ now = nProposalEstablishmentTime + TimeStep
    /\ mnCount = NumMasternodes
    /\ mnKnown = Masternodes
    /\ fSynced = TRUE
    /\ ret = NoRet

\* CBudgetManager::CheckAndRemove on the masternode
MasternodeTick ==
    \E fDraw \in [DOMAIN mapFinalizedBudgets -> BOOLEAN],
       order \in SortedOrders(CleanedProposals(mapProposals, mnKnown)),
       garbage \in [DOMAIN mapProposals -> {0} \cup {mapProposals[h].nAmount :
                                                        h \in DOMAIN mapProposals}] :
      \E r \in {CheckAndRemove_BudgetsVoting(
                    KeysInOrder(DOMAIN mapFinalizedBudgets), mapFinalizedBudgets, EmptyMap,
                    mapProposals, mapSeenFinalizedBudgetVotes, {}, {}, fDraw, nBestHeight,
                    mnCount, mnKnown,
                    [conf |-> txConf, txTime |-> txTime, time |-> now, order |-> order])} :
        /\ \A h \in DOMAIN mapProposals : garbage[h] \in Garbage(mapProposals[h])
        /\ mapFinalizedBudgets' = r.fbs
        /\ mapSeenFinalizedBudgetVotes' = r.seen
        /\ mapProposals' = CheckAndRemove_Proposals(r.props, nBestHeight, mnCount, txConf,
                                                    txTime, garbage)
        /\ autoChecked' = autoChecked \cup r.fired
        /\ ret' = [op |-> "MasternodeTick", fired |-> r.fired, voted |-> r.voted]
        /\ UNCHANGED <<mapSeenProposals, vecImmatureProposals, mapSeenFinalizedBudgets,
                       vecImmatureFinalizedBudgets, mapSeenProposalVotes,
                       mapOrphanProposalVotes, mapOrphanFinalizedBudgetVotes,
                       askedForSourceProposalOrBudget, submitVars, nBestHeight, now, mnVars,
                       chainVars, removedDownvoted, paidChecked, pushedAt, parkedVotes,
                       peerVars, threadVars, signalVars>>

LatchClockStep ==
    /\ now < nProposalEstablishmentTime + TimeStep + MaxLatchTicks * BUDGET_VOTE_UPDATE_MIN
    /\ now' = now + BUDGET_VOTE_UPDATE_MIN
    /\ ret' = NoRet
    /\ UNCHANGED <<propVars, finVars, voteVars, submitVars, nBestHeight, mnVars, chainVars,
                   histVars, peerVars, threadVars, signalVars>>

NextLatch ==
    \/ MasternodeTick
    \/ LatchClockStep
    \/ FinalBudgetVoteStep

SpecLatch == InitLatch /\ [][NextLatch]_vars

\* C22: once CheckAndVote has gone past its early returns for a finalized budget of
\* the active set, no later CheckAndRemove runs the check or stores an automatic vote
\* for that budget again.
AutoCheckOnce ==
    [][ret'.op = "MasternodeTick" =>
          /\ ret'.fired \cap autoChecked = {}
          /\ ret'.voted \cap autoChecked = {}]_vars

-----------------------------------------------------------------------------
(* Relay of proposals and finalized budgets *)

\* A mutation of ProcessBudgetProposal: the handler does not test the seen map
ProcessBudgetProposal_NoDedup(seen, props, vec, msg, nCurrentHeight, enabled, conf, time, garbage) ==
    LET nHash == msg.nHash
        col == IsBudgetCollateralValid(msg.nFeeTXHash, nHash, msg.nTime, FALSE, conf, time)
        received == [msg EXCEPT !.nTime = col.nTime]
        valid == Proposal_UpdateValid(received, nCurrentHeight, enabled, conf, time)
        added == AddProposal(props, Proposal_Copy(valid.obj, garbage), nCurrentHeight,
                             enabled, conf, time, garbage)
        same == [seen |-> seen, props |-> props, vec |-> vec, fAdded |-> FALSE,
                 relayed |-> {}]
    IN IF ~col.ok
       THEN IF col.nConf >= 1 THEN [same EXCEPT !.vec = Append(vec, received)] ELSE same
       ELSE IF ~valid.ok THEN [same EXCEPT !.seen = seen \cup {nHash}]
       ELSE [seen |-> seen \cup {nHash}, props |-> added.props, vec |-> vec,
             fAdded |-> TRUE,
             relayed |-> IF added.ok
                         THEN {Relay("MSG_BUDGET_PROPOSAL", nHash, added.props,
                                     seen \cup {nHash})}
                         ELSE {}]

\* ProcessMessage, strCommand == NetMsgType::BUDGETPROPOSAL, up to the call of
\* CheckOrphanVotes: what it leaves in the seen map, the active map and the vector of
\* immature proposals, whether it went on to CheckOrphanVotes, and what it relayed
ProcessBudgetProposal(seen, props, vec, msg, nCurrentHeight, enabled, conf, time, garbage) ==
    LET nHash == msg.nHash
        col == IsBudgetCollateralValid(msg.nFeeTXHash, nHash, msg.nTime, FALSE, conf, time)
        received == [msg EXCEPT !.nTime = col.nTime]
        valid == Proposal_UpdateValid(received, nCurrentHeight, enabled, conf, time)
        added == AddProposal(props, Proposal_Copy(valid.obj, garbage), nCurrentHeight,
                             enabled, conf, time, garbage)
        same == [seen |-> seen, props |-> props, vec |-> vec, fAdded |-> FALSE,
                 relayed |-> {}]
    IN IF nHash \in seen THEN same
       ELSE IF ~col.ok
       THEN IF col.nConf >= 1 THEN [same EXCEPT !.vec = Append(vec, received)] ELSE same
       ELSE IF ~valid.ok THEN [same EXCEPT !.seen = seen \cup {nHash}]
       ELSE [seen |-> seen \cup {nHash}, props |-> added.props, vec |-> vec,
             fAdded |-> TRUE,
             relayed |-> IF added.ok
                         THEN {Relay("MSG_BUDGET_PROPOSAL", nHash, added.props,
                                     seen \cup {nHash})}
                         ELSE {}]

\* ProcessMessage, strCommand == NetMsgType::FINALBUDGET, up to the call of
\* CheckOrphanVotes
ProcessFinalBudget(seen, fbs, vec, msg, nCurrentHeight, conf, time) ==
    LET nHash == msg.nHash
        col == IsBudgetCollateralValid(msg.nFeeTXHash, nHash, msg.nTime, TRUE, conf, time)
        received == [msg EXCEPT !.nTime = col.nTime]
        valid == Budget_UpdateValid(received, nCurrentHeight, conf, time)
        added == AddFinalizedBudget(fbs, Budget_Copy(valid.obj), nCurrentHeight, conf, time)
        same == [seen |-> seen, fbs |-> fbs, vec |-> vec, fAdded |-> FALSE, relayed |-> {}]
    IN IF nHash \in seen THEN same
       ELSE IF ~col.ok
       THEN IF col.nConf >= 1 THEN [same EXCEPT !.vec = Append(vec, received)] ELSE same
       ELSE IF ~valid.ok THEN [same EXCEPT !.seen = seen \cup {nHash}]
       ELSE [seen |-> seen \cup {nHash}, fbs |-> added.fbs, vec |-> vec, fAdded |-> TRUE,
             relayed |-> IF added.ok
                         THEN {Relay("MSG_BUDGET_FINALIZED", nHash, added.fbs,
                                     seen \cup {nHash})}
                         ELSE {}]

RelayRet(op, relayed) == [op |-> op, relayed |-> relayed]

\* a peer's BUDGETPROPOSAL message is processed and its relays are observed
BudgetProposalStep ==
    \E h \in ProposalHashes : \E garbage \in Garbage(MainProposal(h)) :
    \E r \in {ProcessBudgetProposal(mapSeenProposals, mapProposals, vecImmatureProposals,
                                    MainProposal(h), nBestHeight, mnCount, txConf, txTime,
                                    garbage)} :
        /\ ProcessMessageRuns
        /\ Len(r.vec) <= MaxImmature
        /\ r.fAdded \/ garbage = 0
        /\ mapSeenProposals' = r.seen
        /\ vecImmatureProposals' = r.vec
        /\ IF r.fAdded
           THEN LET orphan == CheckOrphanVotes_Proposals(r.props, mapOrphanProposalVotes, now)
                    orphanF == CheckOrphanVotes_Budgets(mapFinalizedBudgets,
                                                        mapOrphanFinalizedBudgetVotes, now)
                IN /\ mapProposals' = orphan.props
                   /\ mapOrphanProposalVotes' = orphan.orphans
                   /\ mapFinalizedBudgets' = orphanF.fbs
                   /\ mapOrphanFinalizedBudgetVotes' = orphanF.orphans
           ELSE /\ mapProposals' = r.props
                /\ UNCHANGED <<mapFinalizedBudgets, mapOrphanProposalVotes,
                               mapOrphanFinalizedBudgetVotes>>
        /\ ret' = RelayRet("BudgetProposal", r.relayed)
        /\ UNCHANGED <<mapSeenFinalizedBudgets, vecImmatureFinalizedBudgets,
                       mapSeenProposalVotes, mapSeenFinalizedBudgetVotes,
                       askedForSourceProposalOrBudget, submitVars, nBestHeight, now, mnVars,
                       chainVars, histVars, peerVars, threadVars, signalVars>>

\* a peer's FINALBUDGET message is processed and its relays are observed
FinalBudgetStep ==
    \E msg \in PeerBudgets :
    \E r \in {ProcessFinalBudget(mapSeenFinalizedBudgets, mapFinalizedBudgets,
                                 vecImmatureFinalizedBudgets, msg, nBestHeight, txConf,
                                 txTime)} :
        /\ ProcessMessageRuns
        /\ Len(r.vec) <= MaxImmature
        /\ mapSeenFinalizedBudgets' = r.seen
        /\ vecImmatureFinalizedBudgets' = r.vec
        /\ IF r.fAdded
           THEN LET orphan == CheckOrphanVotes_Proposals(mapProposals, mapOrphanProposalVotes,
                                                         now)
                    orphanF == CheckOrphanVotes_Budgets(r.fbs, mapOrphanFinalizedBudgetVotes,
                                                        now)
                IN /\ mapProposals' = orphan.props
                   /\ mapOrphanProposalVotes' = orphan.orphans
                   /\ mapFinalizedBudgets' = orphanF.fbs
                   /\ mapOrphanFinalizedBudgetVotes' = orphanF.orphans
           ELSE /\ mapFinalizedBudgets' = r.fbs
                /\ UNCHANGED <<mapProposals, mapOrphanProposalVotes,
                               mapOrphanFinalizedBudgetVotes>>
        /\ ret' = RelayRet("FinalBudget", r.relayed)
        /\ UNCHANGED <<mapSeenProposals, vecImmatureProposals, mapSeenProposalVotes,
                       mapSeenFinalizedBudgetVotes, askedForSourceProposalOrBudget,
                       submitVars, nBestHeight, now, mnVars, chainVars, histVars, peerVars, threadVars, signalVars>>

NextRelay ==
    \/ BudgetProposalStep
    \/ FinalBudgetStep
    \/ MsgBudgetVote
    \/ NewBlock
    \/ SyncFinished
    \/ MainClockStep

SpecRelay == InitMain /\ [][NextRelay]_vars

RelayOps == {"BudgetProposal", "FinalBudget", "NewBlock"}

\* C23: whenever the inventory of a proposal or of a finalized budget is relayed (a
\* peer's message, the promotion of an immature item, the local submit), the item is
\* already in the active map and in the seen map a requesting peer is served from.
RelayedIsActiveAndSeen ==
    ret.op \in RelayOps => \A r \in ret.relayed : r.fActive /\ r.fSeen

\* the part of C23 the handlers of the peers' messages satisfy
PeerRelayedIsActiveAndSeen ==
    ret.op \in {"BudgetProposal", "FinalBudget"} =>
        \A r \in ret.relayed : r.fActive /\ r.fSeen

\* SubmitFinalBudget relays before AddFinalizedBudget
SubmitRelaysInactive ==
    ret.op = "NewBlock" => \A r \in ret.relayed : r.fActive

\* the promotion of NewBlock relays what the seen map does not hold
PromotionRelaysUnseen ==
    ret.op = "NewBlock" => \A r \in ret.relayed : r.fSeen

-----------------------------------------------------------------------------
(* The locks of the manager *)

\* the four locks of CBudgetManager (masternode-budget.h); they are recursive mutexes
cs_proposals == "cs_proposals"
cs_budgets == "cs_budgets"
cs_votes == "cs_votes"
cs_finalizedvotes == "cs_finalizedvotes"

\* the lock UpdateProposal / UpdateFinalizedBudget takes first
MapLock(kind) == IF kind = "proposal" THEN cs_proposals ELSE cs_budgets

\* the lock of the orphan votes of kind
VoteLock(kind) == IF kind = "proposal" THEN cs_votes ELSE cs_finalizedvotes

\* LOCK(cs) by thread t returns once no other thread holds cs
CanLock(t, cs) == \A u \in Threads \ {t} : cs \notin Range(held[u])

Front(seq) == SubSeq(seq, 1, Len(seq) - 1)

\* thread t in state p holding the locks h, the others as they are
ThreadMoves(t, p, h) ==
    /\ pc' = [pc EXCEPT ![t] = p]
    /\ held' = [held EXCEPT ![t] = h]
    /\ UNCHANGED signalVars

\* the positions at which a thread is in LOCK or WITH_LOCK, and the lock it asks for
LockAt(p) ==
    IF p.at \in {"Update_LOCK", "Remove_LOCK"} THEN MapLock(p.kind)
    ELSE IF p.at \in {"Update_WITH_LOCK", "Orphans_LOCK"} THEN VoteLock(p.kind)
    ELSE "none"

\* the finalized budget of the peers that pays proposal 1 and nothing else
LockBudgets ==
    {fb \in PeerBudgets : Len(fb.vecBudgetPayments) = 1
                          /\ fb.vecBudgetPayments[1].nProposalHash = 1}

\* the targets of the votes the peers send while the threads run: proposal 1 and the
\* budget that pays it, which the manager may hold, and proposal 2, which it never holds
LockVoteTargets(kind) ==
    IF kind = "proposal" THEN {1, 2} ELSE {fb.nHash : fb \in LockBudgets}

\* the vote of the call thread t is in
VoteOf(p, orphansP, orphansF) ==
    IF p.caller = "CheckOrphanVotes"
    THEN IF p.kind = "proposal" THEN orphansP[p.nHash] ELSE orphansF[p.nHash]
    ELSE IF p.kind = "proposal" THEN BudgetVote(p.vin, p.nHash, p.nVote, p.nTime)
    ELSE FinalizedBudgetVote(p.vin, p.nHash, p.nTime)

\* the state in which UpdateProposal / UpdateFinalizedBudget returns fOk to its caller:
\* ProcessMessage is done, the loop of CheckOrphanVotes goes to its next vote
Returned(p, fOk) ==
    IF p.caller = "CheckOrphanVotes"
    THEN [p EXCEPT !.at = "Orphans_loop", !.todo = Tail(p.todo), !.caller = "none"]
    ELSE Outside

\* ProcessMessage (BUDGETVOTE, FINALBUDGETVOTE) of thread t reaches its call of
\* UpdateProposal(vote, pfrom, strError) / UpdateFinalizedBudget(vote, pfrom, strError)
CallUpdate ==
    \E t \in Threads, kind \in {"proposal", "budget"} :
    \E h \in LockVoteTargets(kind) :
        /\ pc[t].at = "outside"
        /\ ThreadMoves(t, [Outside EXCEPT !.at = "Update_LOCK", !.kind = kind, !.vin = 1,
                                          !.nHash = h, !.nVote = "YES", !.nTime = now,
                                          !.fromPeer = TRUE, !.caller = "ProcessMessage"],
                       held[t])
        /\ UNCHANGED <<propVars, finVars, voteVars, submitVars, nBestHeight, now, mnVars,
                       chainVars, ret, histVars, peerVars>>

\* LOCK(cs_proposals) of UpdateProposal, LOCK(cs_budgets) of UpdateFinalizedBudget
UpdateLock ==
    \E t \in Threads :
        /\ pc[t].at = "Update_LOCK"
        /\ CanLock(t, MapLock(pc[t].kind))
        /\ ThreadMoves(t, [pc[t] EXCEPT !.at = "Update_count"],
                       Append(held[t], MapLock(pc[t].kind)))
        /\ UNCHANGED <<propVars, finVars, voteVars, submitVars, nBestHeight, now, mnVars,
                       chainVars, ret, histVars, peerVars>>

\* UpdateProposal / UpdateFinalizedBudget from the test of the map's count: a known
\* target takes the vote and the call returns; an unknown target of a peer's vote on a
\* synced node goes on to WITH_LOCK; any other call returns false
UpdateCount ==
    \E t \in Threads :
    LET p == pc[t]
        vote == VoteOf(p, mapOrphanProposalVotes, mapOrphanFinalizedBudgetVotes)
        fKnown == IF p.kind = "proposal" THEN p.nHash \in DOMAIN mapProposals
                  ELSE p.nHash \in DOMAIN mapFinalizedBudgets
        rP == UpdateProposal(mapProposals, mapOrphanProposalVotes,
                             askedForSourceProposalOrBudget, vote, p.fromPeer, fSynced, now)
        rF == UpdateFinalizedBudget(mapFinalizedBudgets, mapOrphanFinalizedBudgetVotes,
                                    askedForSourceProposalOrBudget, vote, p.fromPeer, fSynced,
                                    now)
        fOk == IF p.kind = "proposal" THEN rP.ok ELSE rF.ok
        fErase == p.caller = "CheckOrphanVotes" /\ fOk
    IN  /\ p.at = "Update_count"
        /\ IF ~fKnown /\ p.fromPeer /\ fSynced
           THEN /\ ThreadMoves(t, [p EXCEPT !.at = "Update_WITH_LOCK"], held[t])
                /\ UNCHANGED <<mapProposals, mapFinalizedBudgets, mapOrphanProposalVotes,
                               mapOrphanFinalizedBudgetVotes>>
           ELSE /\ ThreadMoves(t, Returned(p, fOk), Front(held[t]))
                /\ mapProposals' = IF p.kind = "proposal" THEN rP.props ELSE mapProposals
                /\ mapFinalizedBudgets' =
                      IF p.kind = "budget" THEN rF.fbs ELSE mapFinalizedBudgets
                /\ mapOrphanProposalVotes' =
                      IF fErase /\ p.kind = "proposal"
                      THEN Restrict(mapOrphanProposalVotes,
                                    DOMAIN mapOrphanProposalVotes \ {p.nHash})
                      ELSE mapOrphanProposalVotes
                /\ mapOrphanFinalizedBudgetVotes' =
                      IF fErase /\ p.kind = "budget"
                      THEN Restrict(mapOrphanFinalizedBudgetVotes,
                                    DOMAIN mapOrphanFinalizedBudgetVotes \ {p.nHash})
                      ELSE mapOrphanFinalizedBudgetVotes
        /\ UNCHANGED <<mapSeenProposals, vecImmatureProposals, mapSeenFinalizedBudgets,
                       vecImmatureFinalizedBudgets, mapSeenProposalVotes,
                       mapSeenFinalizedBudgetVotes, askedForSourceProposalOrBudget,
                       submitVars, nBestHeight, now, mnVars, chainVars, ret, histVars,
                       peerVars>>

\* WITH_LOCK(cs_votes, ...) of UpdateProposal and WITH_LOCK(cs_finalizedvotes, ...) of
\* UpdateFinalizedBudget take their lock, with the lock of the map held
UpdateWithLock ==
    \E t \in Threads :
        /\ pc[t].at = "Update_WITH_LOCK"
        /\ CanLock(t, VoteLock(pc[t].kind))
        /\ ThreadMoves(t, [pc[t] EXCEPT !.at = "Update_orphan"],
                       Append(held[t], VoteLock(pc[t].kind)))
        /\ UNCHANGED <<propVars, finVars, voteVars, submitVars, nBestHeight, now, mnVars,
                       chainVars, ret, histVars, peerVars>>

\* the vote goes to the orphan map, WITH_LOCK ends, the source is asked for when it
\* was not, and the call returns false
UpdateOrphan ==
    \E t \in Threads :
    LET p == pc[t]
        vote == VoteOf(p, mapOrphanProposalVotes, mapOrphanFinalizedBudgetVotes)
        rP == UpdateProposal(mapProposals, mapOrphanProposalVotes,
                             askedForSourceProposalOrBudget, vote, TRUE, TRUE, now)
        rF == UpdateFinalizedBudget(mapFinalizedBudgets, mapOrphanFinalizedBudgetVotes,
                                    askedForSourceProposalOrBudget, vote, TRUE, TRUE, now)
    IN  /\ p.at = "Update_orphan"
        /\ ThreadMoves(t, Returned(p, FALSE), Front(Front(held[t])))
        /\ mapOrphanProposalVotes' =
              IF p.kind = "proposal" THEN rP.orphans ELSE mapOrphanProposalVotes
        /\ mapOrphanFinalizedBudgetVotes' =
              IF p.kind = "budget" THEN rF.orphans ELSE mapOrphanFinalizedBudgetVotes
        /\ askedForSourceProposalOrBudget' = IF p.kind = "proposal" THEN rP.asked ELSE rF.asked
        /\ UNCHANGED <<propVars, finVars, mapSeenProposalVotes, mapSeenFinalizedBudgetVotes,
                       submitVars, nBestHeight, now, mnVars, chainVars, ret, histVars,
                       peerVars>>

\* thread t calls CBudgetManager::CheckOrphanVotes
CallCheckOrphanVotes ==
    \E t \in Threads :
        /\ pc[t].at = "outside"
        /\ ThreadMoves(t, [Outside EXCEPT !.at = "Orphans_LOCK", !.kind = "proposal"],
                       held[t])
        /\ UNCHANGED <<propVars, finVars, voteVars, submitVars, nBestHeight, now, mnVars,
                       chainVars, ret, histVars, peerVars>>

\* LOCK(cs_votes) and LOCK(cs_finalizedvotes) of CheckOrphanVotes; the loop starts at
\* the begin() of the orphan map
OrphansLock ==
    \E t \in Threads :
        /\ pc[t].at = "Orphans_LOCK"
        /\ CanLock(t, VoteLock(pc[t].kind))
        /\ ThreadMoves(t, [pc[t] EXCEPT
                              !.at = "Orphans_loop",
                              !.todo = KeysInOrder(IF pc[t].kind = "proposal"
                                                   THEN DOMAIN mapOrphanProposalVotes
                                                   ELSE DOMAIN mapOrphanFinalizedBudgetVotes)],
                       Append(held[t], VoteLock(pc[t].kind)))
        /\ UNCHANGED <<propVars, finVars, voteVars, submitVars, nBestHeight, now, mnVars,
                       chainVars, ret, histVars, peerVars>>

\* a loop of CheckOrphanVotes: UpdateProposal(it->second, nullptr, strError) or
\* UpdateFinalizedBudget(it->second, nullptr, strError) is called for the next orphan
\* vote; at end() the block and its lock end, and the second block or the return follows
OrphansLoop ==
    \E t \in Threads :
    LET p == pc[t] IN
        /\ p.at = "Orphans_loop"
        /\ IF p.todo # <<>>
           THEN ThreadMoves(t, [p EXCEPT !.at = "Update_LOCK", !.nHash = Head(p.todo),
                                         !.fromPeer = FALSE, !.caller = "CheckOrphanVotes"],
                            held[t])
           ELSE IF p.kind = "proposal"
           THEN ThreadMoves(t, [Outside EXCEPT !.at = "Orphans_LOCK", !.kind = "budget"],
                            Front(held[t]))
           ELSE ThreadMoves(t, Outside, Front(held[t]))
        /\ UNCHANGED <<propVars, finVars, voteVars, submitVars, nBestHeight, now, mnVars,
                       chainVars, ret, histVars, peerVars>>

\* thread t calls CBudgetManager::CheckAndRemove
CallCheckAndRemove ==
    \E t \in Threads :
        /\ pc[t].at = "outside"
        /\ ThreadMoves(t, [Outside EXCEPT !.at = "Remove_LOCK", !.kind = "budget"], held[t])
        /\ UNCHANGED <<propVars, finVars, voteVars, submitVars, nBestHeight, now, mnVars,
                       chainVars, ret, histVars, peerVars>>

\* LOCK(cs_budgets) and LOCK(cs_proposals) of CheckAndRemove
RemoveLock ==
    \E t \in Threads :
        /\ pc[t].at = "Remove_LOCK"
        /\ CanLock(t, MapLock(pc[t].kind))
        /\ ThreadMoves(t, [pc[t] EXCEPT !.at = "Remove_swap"],
                       Append(held[t], MapLock(pc[t].kind)))
        /\ UNCHANGED <<propVars, finVars, voteVars, submitVars, nBestHeight, now, mnVars,
                       chainVars, ret, histVars, peerVars>>

\* a block of CheckAndRemove from its loop to its end: the valid entries are copied, the
\* map is swapped for the copies and the lock ends
RemoveSwap ==
    \E t \in Threads,
       garbage \in [DOMAIN mapProposals -> {0} \cup {mapProposals[h].nAmount :
                                                        h \in DOMAIN mapProposals}] :
    LET p == pc[t] IN
        /\ p.at = "Remove_swap"
        /\ \A h \in DOMAIN mapProposals :
              garbage[h] \in (IF p.kind = "proposal" THEN Garbage(mapProposals[h]) ELSE {0})
        /\ IF p.kind = "budget"
           THEN /\ mapFinalizedBudgets' =
                      CheckAndRemove_Budgets(mapFinalizedBudgets, nBestHeight, txConf, txTime,
                                             [b \in DOMAIN mapFinalizedBudgets |-> FALSE])
                /\ ThreadMoves(t, [Outside EXCEPT !.at = "Remove_LOCK", !.kind = "proposal"],
                               Front(held[t]))
                /\ UNCHANGED mapProposals
           ELSE /\ mapProposals' =
                      CheckAndRemove_Proposals(mapProposals, nBestHeight, mnCount, txConf,
                                               txTime, garbage)
                /\ ThreadMoves(t, Outside, Front(held[t]))
                /\ UNCHANGED mapFinalizedBudgets
        /\ UNCHANGED <<mapSeenProposals, vecImmatureProposals, mapSeenFinalizedBudgets,
                       vecImmatureFinalizedBudgets, voteVars, submitVars, nBestHeight, now,
                       mnVars, chainVars, ret, histVars, peerVars>>

\* the manager when the threads start: it may hold proposal 1 and a finalized budget
\* that pays it, both accepted from a peer
InitLocks ==
    /\ \E S \in SUBSET {1} :
          /\ mapProposals = [h \in S |-> MainProposal(h)]
          /\ mapSeenProposals = S
    /\ vecImmatureProposals = <<>>
    /\ \E fbs \in SUBSET LockBudgets :
          /\ mapFinalizedBudgets = [b \in {fb.nHash : fb \in fbs} |->
                                       CHOOSE fb \in fbs : fb.nHash = b]
    /\ mapSeenFinalizedBudgets = DOMAIN mapFinalizedBudgets
    /\ vecImmatureFinalizedBudgets = <<>>
    /\ IdleVotes /\ IdleSubmit /\ IdleHist /\ IdlePeer /\ IdleThreads /\ IdleSignals
    /\ txConf = [t \in Txids |-> nBudgetFeeConfirmations]
    /\ txTime = [t \in Txids |-> 0]
    /\ nBestHeight = FirstHeight
    /\ now = 0
    /\ mnCount = NumMasternodes
    /\ mnKnown = Masternodes
    /\ fSynced \in BOOLEAN
    /\ ret = NoRet

NextLocks ==
    \/ CallUpdate
    \/ UpdateLock
    \/ UpdateCount
    \/ UpdateWithLock
    \/ UpdateOrphan
    \/ CallCheckOrphanVotes
    \/ OrphansLock
    \/ OrphansLoop
    \/ CallCheckAndRemove
    \/ RemoveLock
    \/ RemoveSwap

SpecLocks == InitLocks /\ [][NextLocks]_vars

\* C24: no operation of the manager holds two of the four locks cs_proposals,
\* cs_budgets, cs_votes and cs_finalizedvotes at the same time.
OneLockAtATime ==
    \A t \in Threads : Cardinality(Range(held[t])) <= 1

\* thread t is in LOCK or WITH_LOCK for a lock another thread holds
WaitsFor(t, cs) == LockAt(pc[t]) = cs /\ ~CanLock(t, cs)

\* C25: with CheckOrphanVotes and a peer's UpdateProposal / UpdateFinalizedBudget for an
\* unknown target running in two threads, no state has one thread holding cs_votes and
\* waiting for cs_proposals while the other holds cs_proposals and waits for cs_votes,
\* nor the same with cs_finalizedvotes and cs_budgets.
NoLockOrderDeadlock ==
    \A t, u \in Threads : \A kind \in {"proposal", "budget"} :
        ~ /\ t # u
          /\ VoteLock(kind) \in Range(held[t]) /\ WaitsFor(t, MapLock(kind))
          /\ MapLock(kind) \in Range(held[u]) /\ WaitsFor(u, VoteLock(kind))

-----------------------------------------------------------------------------
(* The cycle GetBudget evaluates against (SpecBudget) *)

\* the proposals the walk of GetBudget returns when IsPassing is asked for the cycle
\* [S, S + nBudgetCycleBlocks - 1] and the total budget is that of S, for the order and
\* the proposals of the last GetBudget
BudgetAgainstCycle(S) ==
    GetBudgetWalk(CleanedProposals(mapProposals, mnKnown), ret.order, 1, 0, <<>>, S,
                  S + nBudgetCycleBlocks - 1, mnCount, GetTotalBudget(S), now).budget

\* C26 as stated: at every height h > 0 GetBudget evaluates the proposals against the
\* cycle [S, E] with S the ceiling of h / C times C and E = S + C - 1.
BudgetAgainstCeilingCycle ==
    (ret.op = "GetBudget" /\ ret.nHeight > 0) =>
        ret.budget = BudgetAgainstCycle(
                         ((ret.nHeight + nBudgetCycleBlocks - 1) \div nBudgetCycleBlocks)
                             * nBudgetCycleBlocks)

\* C26, amended: at every height h > 0 GetBudget evaluates the proposals against the
\* cycle [S, E] with S = (floor(h / C) + 1) * C, the first multiple of C above h, and
\* E = S + C - 1.
BudgetAgainstNextCycle ==
    (ret.op = "GetBudget" /\ ret.nHeight > 0) =>
        ret.budget = BudgetAgainstCycle(
                         ((ret.nHeight \div nBudgetCycleBlocks) + 1) * nBudgetCycleBlocks)

\* C26's case: GetBudget at a height that is a multiple of C returns proposals, which
\* pass for the cycle that starts C blocks later
BudgetAtCycleBoundary ==
    /\ ret.op = "GetBudget"
    /\ ret.nHeight > 0
    /\ ret.nHeight % nBudgetCycleBlocks = 0
    /\ ret.budget # <<>>

-----------------------------------------------------------------------------
(* The establishment of a proposal (SpecPassing) *)

\* C27 as stated: a proposal is established iff its creation time plus the
\* establishment window is at most the adjusted time, the instant at which the two are
\* equal included.
EstablishedFromBoundary ==
    ret.op = "IsEstablished" =>
        (ret.value <=> mapProposals[1].nTime + nProposalEstablishmentTime <= now)

\* C27, amended: a proposal is established iff its creation time plus the establishment
\* window is strictly below the adjusted time; at the instant at which the two are equal
\* it is not established yet.
EstablishedAfterBoundary ==
    ret.op = "IsEstablished" =>
        (ret.value <=> mapProposals[1].nTime + nProposalEstablishmentTime < now)

\* C27's case: IsEstablished is asked at the boundary instant and answers false
NotEstablishedAtBoundary ==
    /\ ret.op = "IsEstablished"
    /\ mapProposals[1].nTime + nProposalEstablishmentTime = now
    /\ ~ret.value

-----------------------------------------------------------------------------
(* Start and end of a proposal *)

MaxPaymentCount == 2

\* CBudgetProposalBroadcast::CBudgetProposalBroadcast(strProposalNameIn, strURLIn,
\* nPaymentCount, addressIn, nAmountIn, nBlockStartIn, nFeeTXHashIn); nHash is the hash
\* of the proposal it builds
CBudgetProposalBroadcast(nHash, nPaymentCount, addressIn, nAmountIn, nBlockStartIn, nFeeTXHashIn) ==
    LET nBlocksPerCycle == nBudgetCycleBlocks
        nCycleStart == nBlockStartIn - (nBlockStartIn % nBlocksPerCycle)
    IN Proposal(nHash, nBlockStartIn, nCycleStart + (nBlocksPerCycle + 1) * nPaymentCount,
                nAmountIn, addressIn, nFeeTXHashIn, 0)

\* the start blocks of the proposals: cycle boundaries and blocks inside a cycle
StartBlocks ==
    {2 * nBudgetCycleBlocks, 2 * nBudgetCycleBlocks + 1, 2 * nBudgetCycleBlocks + 14,
     3 * nBudgetCycleBlocks - 1, 3 * nBudgetCycleBlocks}

\* the end blocks a peer may send with a start block: payments counted from the start
\* block or from its cycle, and the block before each
EndBlocks(nBlockStart) ==
    {base + (nBudgetCycleBlocks + 1) * n - d :
        base \in {nBlockStart, GetBlockCycle(nBlockStart)}, n \in 0..MaxPaymentCount,
        d \in {0, 1}}

\* the manager looks at one proposal a peer sent; its collateral is deep in the chain
InitStartEnd ==
    /\ \E nBlockStart \in StartBlocks : \E nBlockEnd \in EndBlocks(nBlockStart) :
       \E nAmount \in {MinProposalAmount - 1, MinProposalAmount} :
          mapProposals = (1 :> Proposal(1, nBlockStart, nBlockEnd, nAmount, P2PKH(1), 1, 0))
    /\ mapSeenProposals = {1}
    /\ vecImmatureProposals = <<>>
    /\ mapFinalizedBudgets = EmptyMap
    /\ mapSeenFinalizedBudgets = {}
    /\ vecImmatureFinalizedBudgets = <<>>
    /\ IdleVotes /\ IdleSubmit /\ IdleHist /\ IdlePeer /\ IdleThreads /\ IdleSignals
    /\ txConf = [t \in Txids |-> nBudgetFeeConfirmations]
    /\ txTime = [t \in Txids |-> 0]
    /\ nBestHeight = nBudgetCycleBlocks
    /\ now = 0
    /\ mnCount = NumMasternodes
    /\ mnKnown = Masternodes
    /\ fSynced = TRUE
    /\ ret = NoRet

\* mapProposals[1].UpdateValid(nBestHeight)
ProposalUpdateValidStep ==
    \E r \in {Proposal_UpdateValid(mapProposals[1], nBestHeight, mnCount, txConf, txTime)} :
        /\ mapProposals' = (1 :> r.obj)
        /\ ret' = [op |-> "UpdateValid", ok |-> r.ok, nPaymentCount |-> 0, fStartEnd |-> FALSE]
        /\ UNCHANGED <<mapSeenProposals, vecImmatureProposals, finVars, voteVars, submitVars,
                       nBestHeight, now, mnVars, chainVars, histVars, peerVars, threadVars, signalVars>>

\* the broadcast constructor builds the proposal from a start block and a payment count
\* of one or more, and CheckStartEnd is asked about what it built
ProposalBroadcastStep ==
    \E nBlockStartIn \in StartBlocks, nPaymentCount \in 1..MaxPaymentCount :
    \E built \in {CBudgetProposalBroadcast(1, nPaymentCount, P2PKH(1), MinProposalAmount,
                                           nBlockStartIn, 1)} :
        /\ mapProposals' = (1 :> built)
        /\ ret' = [op |-> "Broadcast", ok |-> FALSE, nPaymentCount |-> nPaymentCount,
                   fStartEnd |-> CheckStartEnd(built)]
        /\ UNCHANGED <<mapSeenProposals, vecImmatureProposals, finVars, voteVars, submitVars,
                       nBestHeight, now, mnVars, chainVars, histVars, peerVars, threadVars, signalVars>>

NextStartEnd == ProposalUpdateValidStep \/ ProposalBroadcastStep

SpecStartEnd == InitStartEnd /\ [][NextStartEnd]_vars

\* a proposal UpdateValid accepted has nBlockEnd = floor(nBlockStart / C) * C +
\* (C + 1) * payment count, with a payment count of one or more
AcceptedEndsFromCycle ==
    (ret.op = "UpdateValid" /\ ret.ok) =>
        LET prop == mapProposals[1] IN
        /\ GetTotalPaymentCount(prop) >= 1
        /\ prop.nBlockEnd = (prop.nBlockStart \div nBudgetCycleBlocks) * nBudgetCycleBlocks
                            + (nBudgetCycleBlocks + 1) * GetTotalPaymentCount(prop)

\* a proposal the broadcast constructor built from a payment count of one or more
\* passes CheckStartEnd
BuiltPassesStartEnd ==
    (ret.op = "Broadcast" /\ ret.nPaymentCount >= 1) => ret.fStartEnd

\* C28: every proposal UpdateValid accepts has nBlockEnd = floor(nBlockStart / C) * C +
\* (C + 1) * payment count with a payment count of one or more, and every proposal the
\* broadcast constructor builds from a start block and a payment count of one or more
\* passes the start/end check.
StartEndFromCycle == AcceptedEndsFromCycle /\ BuiltPassesStartEnd

\* the same for the start blocks that are multiples of the cycle length, payment counts
\* of zero left aside
AlignedStartEndFromCycle ==
    mapProposals[1].nBlockStart % nBudgetCycleBlocks = 0 =>
        /\ BuiltPassesStartEnd
        /\ (ret.op = "UpdateValid" /\ ret.ok /\ GetTotalPaymentCount(mapProposals[1]) >= 1) =>
              mapProposals[1].nBlockEnd =
                  mapProposals[1].nBlockStart
                  + (nBudgetCycleBlocks + 1) * GetTotalPaymentCount(mapProposals[1])

-----------------------------------------------------------------------------
(* Obsolete finalized budgets *)

MaxObsoleteCycles == 6

\* the heights of the best block: the first, the second and the last block of the
\* cycles from the second one on
ObsoleteHeights ==
    {m * nBudgetCycleBlocks + d : m \in 2..MaxObsoleteCycles, d \in {0, 1, nBudgetCycleBlocks - 1}}

\* the finalized budget of hash 101 with its first n payments
ObsoleteBudget(nBlockStart, n, nFeeTXHash) ==
    FinalizedBudget(101, "main", nBlockStart, SubSeq(PayBudgetA.vecBudgetPayments, 1, n),
                    nFeeTXHash, 0)

\* the manager holds one finalized budget, of the second or the third cycle, with or
\* without a collateral hash
InitObsolete ==
    /\ mapProposals = EmptyMap
    /\ mapSeenProposals = {}
    /\ vecImmatureProposals = <<>>
    /\ \E nBlockStart \in {2 * nBudgetCycleBlocks, 3 * nBudgetCycleBlocks} :
       \E n \in 1..Len(PayBudgetA.vecBudgetPayments), nFeeTXHash \in {0, 101} :
          mapFinalizedBudgets = (101 :> ObsoleteBudget(nBlockStart, n, nFeeTXHash))
    /\ mapSeenFinalizedBudgets = {101}
    /\ vecImmatureFinalizedBudgets = <<>>
    /\ IdleVotes /\ IdleSubmit /\ IdleHist /\ IdlePeer /\ IdleThreads /\ IdleSignals
    /\ txConf = [t \in {101} |-> nBudgetFeeConfirmations]
    /\ txTime = [t \in {101} |-> 0]
    /\ nBestHeight \in ObsoleteHeights
    /\ now = 0
    /\ mnCount = NumMasternodes
    /\ mnKnown = Masternodes
    /\ fSynced = TRUE
    /\ ret = NoRet

\* mapFinalizedBudgets[101].UpdateValid(nBestHeight)
BudgetUpdateValidStep ==
    /\ 101 \in DOMAIN mapFinalizedBudgets
    /\ \E r \in {Budget_UpdateValid(mapFinalizedBudgets[101], nBestHeight, txConf, txTime)} :
          /\ mapFinalizedBudgets' = (101 :> r.obj)
          /\ ret' = [op |-> "Budget_UpdateValid", ok |-> r.ok]
    /\ UNCHANGED <<propVars, mapSeenFinalizedBudgets, vecImmatureFinalizedBudgets, voteVars,
                   submitVars, nBestHeight, now, mnVars, chainVars, histVars, peerVars,
                   threadVars, signalVars>>

\* the chain grows to a later height
ObsoleteBlockStep ==
    /\ \E h \in ObsoleteHeights : h > nBestHeight /\ nBestHeight' = h
    /\ ret' = [op |-> "SetBestHeight"]
    /\ UNCHANGED <<propVars, finVars, voteVars, submitVars, now, mnVars, chainVars, histVars,
                   peerVars, threadVars, signalVars>>

NextObsolete == BudgetUpdateValidStep \/ CheckAndRemoveStep \/ ObsoleteBlockStep

SpecObsolete == InitObsolete /\ [][NextObsolete]_vars

\* the checks of CFinalizedBudget::UpdateValid before the age of the budget accept fb:
\* UpdateValid accepts it at the height it starts at, where it is not obsolete
PassesBeforeAge(fb) == Budget_UpdateValid(fb, fb.nBlockStart, txConf, txTime).ok

\* UpdateValid at the height of the best block rejects a finalized budget that passes
\* its other checks, and the CheckAndRemove at that height drops it, exactly when the
\* budget's last block is below the start of the cycle of that height less back cycles
ObsoleteBelow(back) ==
    \A b \in DOMAIN mapFinalizedBudgets :
        LET fb == mapFinalizedBudgets[b]
            fObsolete == Budget_GetBlockEnd(fb)
                         < GetBlockCycle(nBestHeight) - back * nBudgetCycleBlocks
        IN PassesBeforeAge(fb) =>
              /\ ret'.op = "Budget_UpdateValid" => (~ret'.ok <=> fObsolete)
              /\ ret'.op = "CheckAndRemove" =>
                    (b \notin DOMAIN mapFinalizedBudgets' <=> fObsolete)

\* C29 as the specification words it: a finalized budget is rejected as obsolete by
\* UpdateValid at height h, and dropped by the next CheckAndRemove, exactly when its
\* last block is below current_cycle_start - 2 * C, current_cycle_start = h - (h mod C)
ObsoleteTwoCyclesBack == [][ObsoleteBelow(2)]_vars

\* C29: a finalized budget that passes the other checks of UpdateValid is rejected as
\* obsolete at height h, and dropped by the CheckAndRemove at that height, exactly when
\* its last block is below (h - (h mod C) + C) - 2 * C, one cycle before the start of
\* the cycle of h
ObsoleteOneCycleBack == [][ObsoleteBelow(1)]_vars

\* UpdateValid has rejected as obsolete a budget that ends in the cycle before the one
\* before the cycle of the height
RejectedOneCycleBack ==
    /\ ret.op = "Budget_UpdateValid" /\ ~ret.ok
    /\ 101 \in DOMAIN mapFinalizedBudgets
    /\ PassesBeforeAge(mapFinalizedBudgets[101])
    /\ Budget_GetBlockEnd(mapFinalizedBudgets[101])
          >= GetBlockCycle(nBestHeight) - 2 * nBudgetCycleBlocks

-----------------------------------------------------------------------------
(* The payment a finalized budget expects at a height *)

\* some output of txNew has the script and the value of payment
TxPays(txNew, payment) ==
    \E i \in 1..Len(txNew) :
        txNew[i].scriptPubKey = payment.payee /\ txNew[i].nValue = payment.nAmount

\* mapPayment_History of fb holds nProposalHash at a height of the budget's cycle
PaidInCycle(fb, nProposalHash) ==
    /\ nProposalHash \in DOMAIN fb.mapPayment_History
    /\ fb.mapPayment_History[nProposalHash] >= Budget_GetBlockStart(fb)
    /\ fb.mapPayment_History[nProposalHash] <= Budget_GetBlockEnd(fb)

\* in a step of budget.IsTransactionValid, what the IsTransactionValid of each budget
\* asked returned, against the budget as it was before the step
IndexedPaymentRule ==
    ret'.op = "IsTransactionValid" =>
        \A k \in DOMAIN ret'.asked :
            LET fb == mapFinalizedBudgets[ret'.asked[k].budget]
                status == ret'.asked[k].status
                i == ret'.nBlockHeight - fb.nBlockStart
            IN IF i < 0 \/ i >= Len(fb.vecBudgetPayments) THEN status = "InValid"
               ELSE ~PaidInCycle(fb, fb.vecBudgetPayments[i + 1].nProposalHash) =>
                       /\ status \in {"Valid", "InValid"}
                       /\ status = "Valid" <=> TxPays(ret'.txNew, fb.vecBudgetPayments[i + 1])

\* C30: CFinalizedBudget::IsTransactionValid(txNew, h) takes the payment of index
\* i = h - nBlockStart and returns InValid when i is outside [0, vecBudgetPayments.size());
\* for an index in range whose proposal mapPayment_History does not hold at a height of
\* the cycle it returns Valid iff some output of txNew has exactly the script and the
\* value of the i-th payment, and InValid otherwise.
IndexedPaymentDecides == [][IndexedPaymentRule]_vars

\* a budget asked at a height of its payments returned Valid for a transaction with an
\* output of the script and the value of the payment of that height
IndexedPaymentChecked ==
    /\ ret.op = "IsTransactionValid"
    /\ \E k \in DOMAIN ret.asked :
          LET fb == mapFinalizedBudgets[ret.asked[k].budget]
              i == ret.nBlockHeight - fb.nBlockStart
          IN /\ i >= 0 /\ i < Len(fb.vecBudgetPayments)
             /\ ret.asked[k].status = "Valid"
             /\ TxPays(ret.txNew, fb.vecBudgetPayments[i + 1])

-----------------------------------------------------------------------------
(* The repeated check of a block transaction *)

\* the budgets of the last budget.IsTransactionValid that were asked at a height of
\* their payments and returned Valid or InValid
AskedInRange ==
    {ret.asked[k].budget : k \in
        {j \in DOMAIN ret.asked :
            /\ ret.asked[j].status \in {"Valid", "InValid"}
            /\ ret.nBlockHeight >= mapFinalizedBudgets[ret.asked[j].budget].nBlockStart
            /\ ret.nBlockHeight <= Budget_GetBlockEnd(mapFinalizedBudgets[ret.asked[j].budget])}}

\* C31: CFinalizedBudget::IsTransactionValid inserts the proposal of the payment of the
\* height into mapPayment_History before it scans the outputs, so after a call that
\* returned Valid or InValid with the index in range the same call again, with the same
\* transaction and height, returns DoublePayment.
RepeatedCallIsDoublePayment ==
    ret.op = "IsTransactionValid" =>
        \A b \in AskedInRange :
            /\ PaidInCycle(mapFinalizedBudgets[b],
                           mapFinalizedBudgets[b].vecBudgetPayments[
                               ret.nBlockHeight - mapFinalizedBudgets[b].nBlockStart + 1]
                              .nProposalHash)
            /\ Budget_IsTransactionValid(mapFinalizedBudgets[b], ret.txNew, ret.nBlockHeight)
                  .status = "DoublePayment"

\* a budget asked in range returned Valid, and the transaction would be found to pay
\* it again if the history were not looked at
RepeatedCallAfterValid ==
    /\ ret.op = "IsTransactionValid"
    /\ \E k \in DOMAIN ret.asked :
          /\ ret.asked[k].budget \in AskedInRange
          /\ ret.asked[k].status = "Valid"
          /\ Budget_IsTransactionValid(mapFinalizedBudgets[ret.asked[k].budget], ret.txNew,
                                       ret.nBlockHeight).status = "DoublePayment"

-----------------------------------------------------------------------------
(* The acceptance band of a payment block *)

\* the budget GetBudgetWithHighestVoteCount returns for nBlockHeight has more votes
\* than the threshold CBudgetManager::IsTransactionValid takes for the height
LeaderInBand(fbs, nBlockHeight, enabled) ==
    LET pay == IsBudgetPaymentBlock(fbs, nBlockHeight, enabled)
        pfb == GetBudgetWithHighestVoteCount(fbs, nBlockHeight)
    IN pfb # 0 /\ Budget_GetVoteCount(fbs[pfb]) > pay.nHighestCount - 2 * pay.nFivePercent

\* C32: whenever IsBudgetPaymentBlock(h) is true the finalized budget with the most
\* votes that covers h is inside the acceptance band, and the manager's
\* IsTransactionValid does not return VoteThreshold, whatever the count of enabled
\* masternodes.
PaymentBlockInBand ==
    (ret.op = "IsTransactionValid"
     /\ IsBudgetPaymentBlock(mapFinalizedBudgets, ret.nBlockHeight, mnCount).value) =>
        /\ LeaderInBand(mapFinalizedBudgets, ret.nBlockHeight, mnCount)
        /\ ret.value # "VoteThreshold"

\* the same with 20 enabled masternodes or more, where five percent is not 0
PaymentBlockInBandFromTwenty ==
    mnCount >= 20 => PaymentBlockInBand

\* with fewer than 20 enabled masternodes five percent is 0 and the budget with the most
\* votes of a payment block is never inside the band
LeaderOutOfBandBelowTwenty ==
    (ret.op = "IsTransactionValid" /\ mnCount < 20
     /\ IsBudgetPaymentBlock(mapFinalizedBudgets, ret.nBlockHeight, mnCount).value) =>
        ~LeaderInBand(mapFinalizedBudgets, ret.nBlockHeight, mnCount)

-----------------------------------------------------------------------------
(* The automatic vote on a finalized budget *)

\* proposal 2 of the automatic vote, with a collateral transaction of the chain
AutoVoteProposal(h) ==
    IF h = 1 THEN MainProposal(1) ELSE [MainProposal(h) EXCEPT !.nFeeTXHash = 3004]

\* the payments a finalized budget may hold for the proposals 1 and 2: the proposal's
\* payee and amount, another payee, another amount
AutoVotePayment ==
    UNION {{BudgetPayment(h, P2PKH(h), AutoVoteProposal(h).nAmount),
            BudgetPayment(h, P2PKH(9), AutoVoteProposal(h).nAmount),
            BudgetPayment(h, P2PKH(h), AutoVoteProposal(h).nAmount - 1)} : h \in {1, 2}}

AutoVotePayments ==
    {<<>>} \cup {<<p>> : p \in AutoVotePayment}
           \cup {<<p, q>> : p \in AutoVotePayment, q \in AutoVotePayment}

\* the masternode holds the proposals 1 and 2, each with some yes votes, and one
\* finalized budget of the next cycle
InitAutoVote ==
    /\ \E yes1 \in 0..NumMasternodes, yes2 \in 0..NumMasternodes :
          mapProposals =
             (1 :> [AutoVoteProposal(1) EXCEPT !.mapVotes = YesVotes(1, yes1)])
             @@ (2 :> [AutoVoteProposal(2) EXCEPT !.mapVotes = YesVotes(2, yes2)])
    /\ mapSeenProposals = {1, 2}
    /\ vecImmatureProposals = <<>>
    /\ \E pays \in AutoVotePayments :
          mapFinalizedBudgets = (101 :> FinalizedBudget(101, "main", MainStart, pays, 101, 0))
    /\ mapSeenFinalizedBudgets = {101}
    /\ vecImmatureFinalizedBudgets = <<>>
    /\ IdleVotes /\ IdleSubmit /\ IdleHist /\ IdlePeer /\ IdleThreads /\ IdleSignals
    /\ txConf = [t \in {1, 3004, 101} |-> nBudgetFeeConfirmations]
    /\ txTime = [t \in {1, 3004, 101} |-> 0]
    /\ nBestHeight = FirstHeight
    /\ now = nProposalEstablishmentTime + TimeStep
    /\ mnCount = NumMasternodes
    /\ mnKnown = Masternodes
    /\ fSynced = TRUE
    /\ ret = NoRet

NextAutoVote == MasternodeTick \/ LatchClockStep

SpecAutoVote == InitAutoVote /\ [][NextAutoVote]_vars

\* the proposals GetBudget may return for the best height
SelectedProposals ==
    {Range(GetBudget(mapProposals, nBestHeight, mnCount, mnKnown, now, order).budget) :
        order \in SortedOrders(CleanedProposals(mapProposals, mnKnown))}

\* payments and the proposals of selected are not empty, are as many and hold the same
\* proposal hashes, each payment with the payee and the amount of its proposal: sorted
\* by descending hash the two agree element by element
AutoVoteAgrees(payments, selected) ==
    /\ selected # {}
    /\ Len(payments) = Cardinality(selected)
    /\ {payments[i].nProposalHash : i \in DOMAIN payments} = selected
    /\ \A i \in DOMAIN payments :
          /\ payments[i].payee = mapProposals[payments[i].nProposalHash].address
          /\ payments[i].nAmount = mapProposals[payments[i].nProposalHash].nAmount

AutoVoteRule ==
    ret'.op = "MasternodeTick" =>
        \A b \in ret'.voted :
            \E selected \in SelectedProposals :
                AutoVoteAgrees(mapFinalizedBudgets[b].vecBudgetPayments, selected)

\* C33: in mode "auto" the masternode submits a yes vote on a finalized budget only if,
\* both sorted by descending hash, the budget's payments and the proposals GetBudget
\* returns are not empty, have the same length and agree element by element on the
\* proposal hash, the payee and the amount; on a discrepancy no vote is submitted.
AutoVoteOnlyOnMatch == [][AutoVoteRule]_vars

\* the masternode voted for a budget whose two payments are not in descending order of
\* the proposal hash
AutoVotedUnsorted ==
    /\ ret.op = "MasternodeTick"
    /\ 101 \in ret.voted
    /\ 101 \in DOMAIN mapFinalizedBudgets
    /\ Len(mapFinalizedBudgets[101].vecBudgetPayments) = 2
    /\ mapFinalizedBudgets[101].vecBudgetPayments[1].nProposalHash
          < mapFinalizedBudgets[101].vecBudgetPayments[2].nProposalHash
    /\ ActiveVin \in DOMAIN mapFinalizedBudgets[101].mapVotes

-----------------------------------------------------------------------------
(* The finalized budgets this node submits *)

MaxSubmitBlocks == 17

\* three blocks before the finalization window of the cycle of MainStart opens
SubmitFirstHeight == MainStart - (nBudgetCycleBlocks \div 30) * 2 - 3

\* the node holds the proposals 1 and 2, both established; proposal 1 has a yes vote
InitSubmit ==
    /\ mapProposals =
          (1 :> [AutoVoteProposal(1) EXCEPT !.mapVotes = YesVotes(1, 1)])
          @@ (2 :> AutoVoteProposal(2))
    /\ mapSeenProposals = {1, 2}
    /\ vecImmatureProposals = <<>>
    /\ mapFinalizedBudgets = EmptyMap
    /\ mapSeenFinalizedBudgets = {}
    /\ vecImmatureFinalizedBudgets = <<>>
    /\ IdleVotes /\ IdleSubmit /\ IdleHist /\ IdlePeer /\ IdleThreads /\ IdleSignals
    /\ txConf = [t \in {1, 3004} \cup SubmitTxids |->
                    IF t \in SubmitTxids THEN -1 ELSE nBudgetFeeConfirmations]
    /\ txTime = [t \in {1, 3004} \cup SubmitTxids |-> 0]
    /\ nBestHeight = SubmitFirstHeight
    /\ now = nProposalEstablishmentTime + TimeStep
    /\ mnCount = NumMasternodes
    /\ mnKnown = Masternodes
    /\ fSynced = TRUE
    /\ ret = NoRet

\* CBudgetManager::NewBlock(nBestHeight + 1) on a synced node in mode suggest whose
\* immature queues are empty: SubmitFinalBudget, and at a multiple of 14 ClearSeen when
\* rand() % 1440 is 0 (fClear) and CheckAndRemove
SubmitBlockStep ==
    \E height \in {nBestHeight + 1}, mined \in {Mempool(txConf)},
       order \in SortedOrders(CleanedProposals(mapProposals, mnKnown)),
       fWallet \in BOOLEAN, fClear \in BOOLEAN :
    \E time1 \in {[t \in DOMAIN txTime |-> IF t \in mined THEN now ELSE txTime[t]]},
       conf1 \in {ChainAdvance(txConf, mined, 1)} :
    \E submit \in {SubmitFinalBudget(mapProposals, mapFinalizedBudgets,
                       mapSeenFinalizedBudgets, mapCollateralTxids, nSubmittedHeight, conf1,
                       time1, height, mnCount, mnKnown, now, order, fWallet)} :
        /\ height <= SubmitFirstHeight + MaxSubmitBlocks
        /\ height % 14 # 0 => ~fClear
        /\ nBestHeight' = height
        /\ txTime' = time1
        /\ txConf' = submit.conf
        /\ mapCollateralTxids' = submit.txids
        /\ nSubmittedHeight' = submit.submitted
        /\ ret' = [op |-> "SubmitFinalBudget", nCurrentHeight |-> height,
                   result |-> submit.result,
                   created |-> submit.created]
        /\ IF height % 14 # 0
           THEN /\ mapProposals' = submit.props
                /\ mapFinalizedBudgets' = submit.fbs
                /\ mapSeenFinalizedBudgets' = submit.seen
                /\ UNCHANGED <<mapSeenProposals, mapSeenProposalVotes,
                               mapSeenFinalizedBudgetVotes>>
           ELSE /\ mapProposals' =
                      CheckAndRemove_Proposals(submit.props, height, mnCount, submit.conf,
                                               time1, [h \in DOMAIN submit.props |-> 0])
                /\ mapFinalizedBudgets' =
                      CheckAndRemove_Budgets(submit.fbs, height, submit.conf, time1,
                                             [b \in DOMAIN submit.fbs |-> FALSE])
                /\ mapSeenFinalizedBudgets' =
                      IF fClear THEN ClearSeen(submit.seen) ELSE submit.seen
                /\ mapSeenProposals' =
                      IF fClear THEN ClearSeen(mapSeenProposals) ELSE mapSeenProposals
                /\ mapSeenProposalVotes' =
                      IF fClear THEN ClearSeen(mapSeenProposalVotes) ELSE mapSeenProposalVotes
                /\ mapSeenFinalizedBudgetVotes' =
                      IF fClear THEN ClearSeen(mapSeenFinalizedBudgetVotes)
                      ELSE mapSeenFinalizedBudgetVotes
        /\ UNCHANGED <<vecImmatureProposals, vecImmatureFinalizedBudgets,
                       mapOrphanProposalVotes, mapOrphanFinalizedBudgetVotes,
                       askedForSourceProposalOrBudget, now, mnVars, histVars, peerVars,
                       threadVars, signalVars>>

\* masternode 1 votes yes on proposal 2
SubmitVoteStep ==
    \E r \in {CBudgetProposal_AddOrUpdateVote(mapProposals[2], BudgetVote(1, 2, "YES", now),
                                              now)} :
        /\ 2 \in DOMAIN mapProposals
        /\ r.ok
        /\ mapProposals' = [mapProposals EXCEPT ![2] = r.obj]
        /\ ret' = [op |-> "Vote", nCurrentHeight |-> nBestHeight, result |-> "none",
                   created |-> {}]
        /\ UNCHANGED <<mapSeenProposals, vecImmatureProposals, finVars, voteVars, submitVars,
                       nBestHeight, now, mnVars, chainVars, histVars, peerVars, threadVars, signalVars>>

NextSubmit == SubmitBlockStep \/ SubmitVoteStep

SpecSubmit == InitSubmit /\ [][NextSubmit]_vars

\* nCurrentHeight is in the finalization window before the next cycle start
InFinalizationWindow(nCurrentHeight) ==
    LET nBlockStart == GetBlockCycle(nCurrentHeight) + nBudgetCycleBlocks
    IN nBlockStart - nCurrentHeight <= (nBudgetCycleBlocks \div 30) * 2

\* the finalized budgets of mapFinalizedBudgets whose collateral this node's wallet paid
OwnBudgets ==
    {b \in DOMAIN mapFinalizedBudgets :
        mapFinalizedBudgets[b].nFeeTXHash = WalletFeeTx(b)}

\* a collateral is created and a finalized budget is inserted by SubmitFinalBudget only
\* at a height of the finalization window
SubmitOnlyInWindow ==
    (ret.op = "SubmitFinalBudget" /\ (ret.created # {} \/ ret.result = "relay")) =>
        InFinalizationWindow(ret.nCurrentHeight)

\* the node does not insert a second finalized budget of a cycle
InsertOncePerCycle ==
    \A b1, b2 \in OwnBudgets :
        mapFinalizedBudgets[b1].nBlockStart = mapFinalizedBudgets[b2].nBlockStart => b1 = b2

\* the node has created the collateral of at most one finalized budget of a cycle (the
\* hundreds of a budget hash of the model are its cycle) and has inserted at most one
SubmitOncePerCycle ==
    /\ \A b1, b2 \in DOMAIN mapCollateralTxids : b1 \div 100 = b2 \div 100 => b1 = b2
    /\ InsertOncePerCycle

\* C34: in mode "suggest" the node submits (creates the collateral of, and inserts) a
\* finalized budget at most once per cycle, and only when the height is inside the
\* finalization window before the next cycle start.
SubmitOnceInWindow == SubmitOncePerCycle /\ SubmitOnlyInWindow


\* SubmitFinalBudget was called before the finalization window and did nothing
SubmitTooEarly ==
    /\ ret.op = "SubmitFinalBudget"
    /\ ~InFinalizationWindow(ret.nCurrentHeight)
    /\ ret.result = "none" /\ ret.created = {}

-----------------------------------------------------------------------------
(* The collateral of a finalized budget is paid once *)

\* in a call of SubmitFinalBudget the wallet creates no collateral for a budget hash
\* mapCollateralTxids holds, the txid the map holds for a hash stays, and a finalized
\* budget the node inserts carries the txid the map holds for it
CollateralOnceRule ==
    ret'.op = "SubmitFinalBudget" =>
        /\ \A b \in DOMAIN mapCollateralTxids :
              /\ b \notin ret'.created
              /\ b \in DOMAIN mapCollateralTxids'
              /\ mapCollateralTxids'[b] = mapCollateralTxids[b]
        /\ \A b \in ret'.created : b \in DOMAIN mapCollateralTxids'
        /\ \A b \in DOMAIN mapFinalizedBudgets' \ DOMAIN mapFinalizedBudgets :
              /\ b \in DOMAIN mapCollateralTxids'
              /\ mapFinalizedBudgets'[b].nFeeTXHash = mapCollateralTxids'[b]

\* C35: SubmitFinalBudget asks the wallet to create and commit a collateral transaction
\* for a finalized-budget hash at most once: after a commit the txid is remembered in
\* mapCollateralTxids, and every later attempt for the same budget hash takes that txid
\* and waits for its confirmations instead of paying the fee again.
CollateralCreatedOnce == [][CollateralOnceRule]_vars

\* a later attempt found the collateral it had created still short of confirmations
CollateralAwaited ==
    /\ ret.op = "SubmitFinalBudget"
    /\ ret.result = "collateral"
    /\ ret.created = {}
    /\ \E b \in DOMAIN mapCollateralTxids :
          txConf[mapCollateralTxids[b]] \in 1..(nBudgetFeeConfirmations - 1)

-----------------------------------------------------------------------------
(* The items and the votes of the peers, observed *)

MaxParked == 2

\* the heights NewBlock is called with while the peers send: the block before a
\* multiple of 14, that multiple, a block that buries a collateral of one confirmation
\* under nBudgetFeeConfirmations, and the next multiple of 14
PeerHeights ==
    {FirstHeight - 1, FirstHeight, FirstHeight + nBudgetFeeConfirmations, FirstHeight + 14}

\* the node is synced; the collateral of a proposal is in the mempool or deep in the
\* chain, the fee of a peer's finalized budget is in the mempool or is never paid
InitPeer ==
    /\ mapProposals = EmptyMap
    /\ mapSeenProposals = {}
    /\ vecImmatureProposals = <<>>
    /\ mapFinalizedBudgets = EmptyMap
    /\ mapSeenFinalizedBudgets = {}
    /\ vecImmatureFinalizedBudgets = <<>>
    /\ IdleVotes /\ IdleSubmit /\ IdleHist /\ IdlePeer /\ IdleThreads /\ IdleSignals
    /\ \E c \in [ProposalHashes -> {0, nBudgetFeeConfirmations}], f \in {-1, 0} :
          txConf = [t \in Txids |-> IF t \in ProposalHashes THEN c[t]
                                    ELSE IF t \in {PeerFeeTx(b) : b \in BudgetHashes} THEN f
                                    ELSE -1]
    /\ txTime = [t \in Txids |-> 0]
    /\ nBestHeight = FirstHeight - 2
    /\ now = 0
    /\ mnCount = NumMasternodes
    /\ mnKnown = Masternodes
    /\ fSynced = TRUE
    /\ ret = NoRet

\* what a handler of ProcessMessage did with the item (a hash, or a vote) of a peer:
\* fSeen is whether the seen map held the item when the message came, fCollateral and
\* nConf are what IsBudgetCollateralValid gave (votes have none),
\* misbehaving the score given to Misbehaving, relayed what was relayed and added
\* what was handed to masternodeSync.AddedBudgetItem
PeerRet(op, item, fSeen, fCollateral, nConf, misbehaving, relayed, added) ==
    [op |-> op, item |-> item, fSeen |-> fSeen, fCollateral |-> fCollateral,
     nConf |-> nConf, misbehaving |-> misbehaving, relayed |-> relayed, added |-> added]

\* ProcessMessage, strCommand == NetMsgType::BUDGETPROPOSAL.  The branch holds no call
\* of Misbehaving: the score is 0 on each of its paths.
PeerProposalStep ==
    \E h \in ProposalHashes : \E garbage \in Garbage(MainProposal(h)) :
    \E r \in {ProcessBudgetProposal(mapSeenProposals, mapProposals, vecImmatureProposals,
                                    MainProposal(h), nBestHeight, mnCount, txConf, txTime,
                                    garbage)},
       col \in {IsBudgetCollateralValid(MainProposal(h).nFeeTXHash, h, MainProposal(h).nTime,
                                        FALSE, txConf, txTime)} :
        /\ ProcessMessageRuns
        /\ Len(r.vec) <= MaxParked
        /\ r.fAdded \/ garbage = 0
        /\ mapSeenProposals' = r.seen
        /\ vecImmatureProposals' = r.vec
        /\ IF r.fAdded
           THEN LET orphan == CheckOrphanVotes_Proposals(r.props, mapOrphanProposalVotes, now)
                    orphanF == CheckOrphanVotes_Budgets(mapFinalizedBudgets,
                                                        mapOrphanFinalizedBudgetVotes, now)
                IN /\ mapProposals' = orphan.props
                   /\ mapOrphanProposalVotes' = orphan.orphans
                   /\ mapFinalizedBudgets' = orphanF.fbs
                   /\ mapOrphanFinalizedBudgetVotes' = orphanF.orphans
           ELSE /\ mapProposals' = r.props
                /\ UNCHANGED <<mapFinalizedBudgets, mapOrphanProposalVotes,
                               mapOrphanFinalizedBudgetVotes>>
        /\ ret' = PeerRet("PeerProposal", h, h \in mapSeenProposals, col.ok, col.nConf, 0, r.relayed,
                          IF h \in mapSeenProposals \/ r.fAdded THEN {h} ELSE {})
        /\ UNCHANGED <<mapSeenFinalizedBudgets, vecImmatureFinalizedBudgets,
                       mapSeenProposalVotes, mapSeenFinalizedBudgetVotes,
                       askedForSourceProposalOrBudget, submitVars, nBestHeight, now, mnVars,
                       chainVars, histVars, peerVars, threadVars, signalVars>>

\* ProcessMessage, strCommand == NetMsgType::FINALBUDGET.  The branch holds no call of
\* Misbehaving either.
PeerBudgetStep ==
    \E msg \in PeerBudgets :
    \E r \in {ProcessFinalBudget(mapSeenFinalizedBudgets, mapFinalizedBudgets,
                                 vecImmatureFinalizedBudgets, msg, nBestHeight, txConf,
                                 txTime)},
       col \in {IsBudgetCollateralValid(msg.nFeeTXHash, msg.nHash, msg.nTime, TRUE, txConf,
                                        txTime)} :
        /\ ProcessMessageRuns
        /\ Len(r.vec) <= MaxParked
        /\ mapSeenFinalizedBudgets' = r.seen
        /\ vecImmatureFinalizedBudgets' = r.vec
        /\ IF r.fAdded
           THEN LET orphan == CheckOrphanVotes_Proposals(mapProposals, mapOrphanProposalVotes,
                                                         now)
                    orphanF == CheckOrphanVotes_Budgets(r.fbs, mapOrphanFinalizedBudgetVotes,
                                                        now)
                IN /\ mapProposals' = orphan.props
                   /\ mapOrphanProposalVotes' = orphan.orphans
                   /\ mapFinalizedBudgets' = orphanF.fbs
                   /\ mapOrphanFinalizedBudgetVotes' = orphanF.orphans
           ELSE /\ mapFinalizedBudgets' = r.fbs
                /\ UNCHANGED <<mapProposals, mapOrphanProposalVotes,
                               mapOrphanFinalizedBudgetVotes>>
        /\ ret' = PeerRet("PeerBudget", msg.nHash, msg.nHash \in mapSeenFinalizedBudgets, col.ok,
                          col.nConf, 0, r.relayed,
                          IF msg.nHash \in mapSeenFinalizedBudgets \/ r.fAdded
                          THEN {msg.nHash} ELSE {})
        /\ UNCHANGED <<mapSeenProposals, vecImmatureProposals, mapSeenProposalVotes,
                       mapSeenFinalizedBudgetVotes, askedForSourceProposalOrBudget,
                       submitVars, nBestHeight, now, mnVars, chainVars, histVars, peerVars,
                       threadVars, signalVars>>

\* ProcessMessage, strCommand == NetMsgType::BUDGETVOTE
PeerVoteStep ==
    \E mn \in Voters, h \in ProposalHashes, fSignature \in BOOLEAN :
        LET vote == BudgetVote(mn, h, "YES", now) IN
        /\ ProcessMessageRuns
        /\ (vote \in mapSeenProposalVotes \/ mn \notin mnKnown) => fSignature
        /\ (vote \notin mapSeenProposalVotes /\ mn \in mnKnown) =>
               Cardinality(mapSeenProposalVotes) < MaxSeenVotes
        /\ \E r \in {ProcessBudgetVote(mapSeenProposalVotes, mapProposals,
                                        mapOrphanProposalVotes, askedForSourceProposalOrBudget,
                                        vote, fSignature, mnKnown, fSynced, now)} :
              /\ mapSeenProposalVotes' = r.seen
              /\ mapProposals' = r.props
              /\ mapOrphanProposalVotes' = r.orphans
              /\ askedForSourceProposalOrBudget' = r.asked
              /\ ret' = PeerRet("PeerVote", vote, vote \in mapSeenProposalVotes, TRUE, 0,
                                r.misbehaving,
                                IF r.relayed THEN {vote} ELSE {},
                                IF vote \in mapSeenProposalVotes \/ r.stored THEN {vote}
                                ELSE {})
        /\ UNCHANGED <<mapSeenProposals, vecImmatureProposals, mapSeenFinalizedBudgetVotes,
                       mapOrphanFinalizedBudgetVotes, finVars, submitVars, nBestHeight, now,
                       mnVars, chainVars, histVars, peerVars, threadVars, signalVars>>

\* ProcessMessage, strCommand == NetMsgType::FINALBUDGETVOTE
PeerBudgetVoteStep ==
    \E mn \in Voters, b \in BudgetHashes, fSignature \in BOOLEAN :
        LET vote == FinalizedBudgetVote(mn, b, now) IN
        /\ ProcessMessageRuns
        /\ (vote \in mapSeenFinalizedBudgetVotes \/ mn \notin mnKnown) => fSignature
        /\ (vote \notin mapSeenFinalizedBudgetVotes /\ mn \in mnKnown) =>
               Cardinality(mapSeenFinalizedBudgetVotes) < MaxSeenVotes
        /\ \E r \in {ProcessFinalBudgetVote(mapSeenFinalizedBudgetVotes, mapFinalizedBudgets,
                                             mapOrphanFinalizedBudgetVotes,
                                             askedForSourceProposalOrBudget, vote, fSignature,
                                             mnKnown, fSynced, now)} :
              /\ mapSeenFinalizedBudgetVotes' = r.seen
              /\ mapFinalizedBudgets' = r.fbs
              /\ mapOrphanFinalizedBudgetVotes' = r.orphans
              /\ askedForSourceProposalOrBudget' = r.asked
              /\ ret' = PeerRet("PeerBudgetVote", vote, vote \in mapSeenFinalizedBudgetVotes,
                                TRUE, 0, r.misbehaving,
                                IF r.relayed THEN {vote} ELSE {},
                                IF vote \in mapSeenFinalizedBudgetVotes \/ r.stored
                                THEN {vote} ELSE {})
        /\ UNCHANGED <<mapSeenFinalizedBudgets, vecImmatureFinalizedBudgets,
                       mapSeenProposalVotes, mapOrphanProposalVotes, propVars, submitVars,
                       nBestHeight, now, mnVars, chainVars, histVars, peerVars, threadVars, signalVars>>

\* NewBlock at the next of PeerHeights, with what its two TRY_LOCK got in the outcome
PeerBlockStep ==
    \E fLockProposals \in BOOLEAN, fLockBudgets \in BOOLEAN :
        NewBlockAt(PeerHeights, fLockProposals, fLockBudgets, TRUE)

NextPeer ==
    \/ PeerProposalStep
    \/ PeerBudgetStep
    \/ PeerVoteStep
    \/ PeerBudgetVoteStep
    \/ PeerBlockStep

SpecPeer == InitPeer /\ [][NextPeer]_vars

ItemOps == {"PeerProposal", "PeerBudget"}
PeerOps == ItemOps \cup {"PeerVote", "PeerBudgetVote"}

\* the seen set the handler of op tests
SeenOf(op) ==
    IF op = "PeerProposal" THEN mapSeenProposals
    ELSE IF op = "PeerBudget" THEN mapSeenFinalizedBudgets
    ELSE IF op = "PeerVote" THEN mapSeenProposalVotes
    ELSE mapSeenFinalizedBudgetVotes

\* a proposal or a finalized budget this node had not seen failed the validation of
\* its collateral
BadCollateral == ret'.op \in ItemOps /\ ret'.item \notin SeenOf(ret'.op) /\ ~ret'.fCollateral

\* C36: when a peer sends a proposal or a finalized budget whose collateral fails
\* validation, the ban score of the peer is increased by 20.
BadCollateralScored == [][BadCollateral => ret'.misbehaving = 20]_vars

\* what the handlers do instead: the item is dropped or parked and the peer is not
\* scored
BadCollateralUnscored == [][BadCollateral => ret'.misbehaving = 0]_vars

\* a peer's item was refused for its collateral without being parked
BadCollateralRefused ==
    /\ ret.op \in ItemOps
    /\ ~ret.fCollateral
    /\ ret.nConf = 0
    /\ ret.item \notin SeenOf(ret.op)


\* the manager's maps, vectors and throttle
ManagerState == <<propVars, finVars, voteVars, submitVars>>

SeenItemRule ==
    ret'.op \in PeerOps /\ ret'.item \in SeenOf(ret'.op) =>
        /\ UNCHANGED ManagerState
        /\ ret'.relayed = {}
        /\ ret'.misbehaving = 0
        /\ ret'.added = {ret'.item}

\* C37: a proposal, a finalized budget, a proposal vote or a finalized-budget vote
\* whose hash the seen map of its kind holds changes none of the manager's maps,
\* immature vectors, orphan votes and ask throttle and is not relayed; the handler
\* only hands the hash to masternodeSync.AddedBudgetItem.
SeenItemChangesNothing == [][SeenItemRule]_vars

\* a peer sent again a proposal this node had seen and holds
SeenProposalRepeated ==
    /\ ret.op = "PeerProposal"
    /\ ret.fSeen
    /\ ret.item \in DOMAIN mapProposals
    /\ ret.added = {ret.item}


-----------------------------------------------------------------------------
(* The immature proposals and finalized budgets *)

HashesOf(vec) == [i \in DOMAIN vec |-> vec[i].nHash]

\* the entries of vec whose collateral has fewer than nBudgetFeeConfirmations in conf
StillImmature(vec, conf) ==
    SelectSeq(vec, LAMBDA it : conf[it.nFeeTXHash] < nBudgetFeeConfirmations)

\* the handler parked the item it was sent: the vector of its kind has one more entry,
\* the seen map and the active map are as they were
Parked(vec, vecAfter, nHash) ==
    /\ Len(vecAfter) = Len(vec) + 1
    /\ SubSeq(vecAfter, 1, Len(vec)) = vec
    /\ vecAfter[Len(vecAfter)].nHash = nHash

ParkRule ==
    ret'.op \in ItemOps /\ ~ret'.fCollateral /\ ret'.nConf >= 1 =>
        /\ ret'.relayed = {}
        /\ UNCHANGED <<mapProposals, mapSeenProposals, mapFinalizedBudgets,
                       mapSeenFinalizedBudgets>>
        /\ IF ret'.op = "PeerProposal"
           THEN /\ Parked(vecImmatureProposals, vecImmatureProposals', ret'.item)
                /\ UNCHANGED vecImmatureFinalizedBudgets
           ELSE /\ Parked(vecImmatureFinalizedBudgets, vecImmatureFinalizedBudgets',
                          ret'.item)
                /\ UNCHANGED vecImmatureProposals

\* NewBlock went through its loop over vecImmatureProposals, and over
\* vecImmatureFinalizedBudgets
ProposalsLoopRan == ret'.op = "NewBlock" /\ ret'.result = "checked" /\ ret'.fLockProposals
BudgetsLoopRan == ProposalsLoopRan /\ ret'.fLockBudgets

\* the entries the loop is over leave the vector when their collateral has the
\* confirmations and stay while it has not; outside the loops the vectors stay
QueueRule ==
    /\ ProposalsLoopRan =>
          HashesOf(vecImmatureProposals') =
              HashesOf(StillImmature(vecImmatureProposals, txConf'))
    /\ BudgetsLoopRan =>
          HashesOf(vecImmatureFinalizedBudgets') =
              HashesOf(StillImmature(vecImmatureFinalizedBudgets, txConf'))
    /\ ret'.op = "NewBlock" /\ ~ProposalsLoopRan => UNCHANGED vecImmatureProposals
    /\ ret'.op = "NewBlock" /\ ~BudgetsLoopRan => UNCHANGED vecImmatureFinalizedBudgets

\* the entries that leave the vectors with UpdateValid passed
PromotedProposals ==
    {vecImmatureProposals[i].nHash : i \in
        {i \in DOMAIN vecImmatureProposals :
            /\ txConf'[vecImmatureProposals[i].nFeeTXHash] >= nBudgetFeeConfirmations
            /\ Proposal_UpdateValid(vecImmatureProposals[i], nBestHeight', mnCount, txConf',
                                    txTime').ok}}
PromotedBudgets ==
    {vecImmatureFinalizedBudgets[i].nHash : i \in
        {i \in DOMAIN vecImmatureFinalizedBudgets :
            /\ txConf'[vecImmatureFinalizedBudgets[i].nFeeTXHash] >= nBudgetFeeConfirmations
            /\ Budget_UpdateValid(vecImmatureFinalizedBudgets[i], nBestHeight', txConf',
                                  txTime').ok}}

RelayedHashes(type) == {r.nHash : r \in {r \in ret'.relayed : r.type = type}}

\* every promoted entry is in the active map after the tick and was relayed in it
PromoteAndRelayRule ==
    /\ ProposalsLoopRan =>
          /\ PromotedProposals \subseteq DOMAIN mapProposals'
          /\ PromotedProposals \subseteq RelayedHashes("MSG_BUDGET_PROPOSAL")
    /\ BudgetsLoopRan =>
          /\ PromotedBudgets \subseteq DOMAIN mapFinalizedBudgets'
          /\ PromotedBudgets \subseteq RelayedHashes("MSG_BUDGET_FINALIZED")

\* every promoted entry is in the active map after the tick, and was relayed in it
\* unless the active map held its hash before the tick
PromoteRule ==
    /\ ProposalsLoopRan =>
          /\ PromotedProposals \subseteq DOMAIN mapProposals'
          /\ PromotedProposals \ DOMAIN mapProposals
                \subseteq RelayedHashes("MSG_BUDGET_PROPOSAL")
    /\ BudgetsLoopRan =>
          /\ PromotedBudgets \subseteq DOMAIN mapFinalizedBudgets'
          /\ PromotedBudgets \ DOMAIN mapFinalizedBudgets
                \subseteq RelayedHashes("MSG_BUDGET_FINALIZED")

\* C38: a proposal or a finalized budget whose collateral fails validation with at
\* least 1 confirmation is parked in the immature vector and enters neither the seen
\* map nor the active map; at a later tick of NewBlock that reaches the vectors, an
\* entry whose collateral has the confirmations leaves the vector and, when UpdateValid
\* accepts it, is in the active map and is relayed; an entry whose collateral is still
\* short stays.
ImmaturePromotedAndRelayed == [][ParkRule /\ QueueRule /\ PromoteAndRelayRule]_vars

\* C38 amended: the same, the promoted entry being relayed unless the active map held
\* its hash before the tick.
ImmaturePromoted == [][ParkRule /\ QueueRule /\ PromoteRule]_vars

\* a tick of NewBlock promoted and relayed a proposal: the vector is empty, and the
\* proposal is in the active map and not in the seen map
ImmatureProposalPromoted ==
    /\ ret.op = "NewBlock"
    /\ "fLockProposals" \in DOMAIN ret
    /\ \E r \in ret.relayed : r.type = "MSG_BUDGET_PROPOSAL" /\ r.nHash \in DOMAIN mapProposals
    /\ vecImmatureProposals = <<>>


-----------------------------------------------------------------------------
(* MainSignalsInstance: the registry of the validation interfaces *)

\* the objects the callers register, and the addresses std::make_shared gives to the
\* copies RegisterValidationInterface makes of them
Interfaces == {"wallet", "zmq"}
Addresses == {"a1", "a2"}

\* the budget manager and its threads are left alone
managerVars ==
    <<propVars, finVars, voteVars, submitVars, nBestHeight, now, mnVars, chainVars, histVars,
      peerVars, threadVars>>

\* std::make_shared<CValidationInterface>(*pwalletIn): a new object at addr, a copy of
\* the interface of
SharedValidation(addr, of) == [addr |-> addr, of |-> of]

\* struct ListEntry { std::shared_ptr<CValidationInterface> callbacks; int count = 1; }
ListEntry(callbacks) == [callbacks |-> callbacks, count |-> 1]

\* callbacks.get() of the entries of list
Pointers(list) == {list[i].callbacks.addr : i \in DOMAIN list}

\* the position in list of the entry the key of m_map points to; the shared pointer of
\* an entry keeps its object alive, so no two entries hold the same address
EntryAt(list, key) == CHOOSE i \in DOMAIN list : list[i].callbacks.addr = key

\* m_list.erase(it)
Erase(list, i) == SubSeq(list, 1, i - 1) \o SubSeq(list, i + 1, Len(list))

\* --it->count ? std::next(it) : m_list.erase(it): the list after it, and the position
\* the returned iterator has in that list
Release(list, i) ==
    IF list[i].count - 1 # 0
    THEN [list |-> [list EXCEPT ![i].count = @ - 1], next |-> i + 1]
    ELSE [list |-> Erase(list, i), next |-> i]

\* MainSignalsInstance::Register(callbacks)
Register(list, map, callbacks) ==
    LET key == callbacks.addr
        inserted == key \notin map
        list1 == IF inserted THEN Append(list, ListEntry(callbacks)) ELSE list
    IN [list |-> [list1 EXCEPT ![EntryAt(list1, key)].callbacks = callbacks],
        map |-> map \cup {key}]

\* MainSignalsInstance::Unregister(callbacks)
Unregister(list, map, callbacks) ==
    IF callbacks \in map
    THEN [list |-> Release(list, EntryAt(list, callbacks)).list, map |-> map \ {callbacks}]
    ELSE [list |-> list, map |-> map]

\* MainSignalsInstance::Clear(): the loop is over m_list, whatever m_map points to
Clear(list, map) ==
    [list |-> SelectSeq([i \in DOMAIN list |-> [list[i] EXCEPT !.count = @ - 1]],
                        LAMBDA entry : entry.count # 0),
     map |-> {}]

\* a thread in Iterate, in f(*it->callbacks) of the entry at address it with m_mutex
\* released; since are the interfaces whose unregistration had returned when the call
\* of Iterate began
Iterating(it, since) == [it |-> it, since |-> since]

\* the iterator of a thread whose entry was erased under it, and a thread the use of
\* such an iterator stopped
Erased == "erased"
Crashed == "crashed"

\* the threads in a callback of an entry that list no longer holds keep an iterator to
\* an erased entry
AfterErase(exec, list) ==
    [t \in Threads |->
        IF exec[t].it \in Addresses /\ exec[t].it \notin Pointers(list)
        THEN Iterating(Erased, exec[t].since) ELSE exec[t]]

SignalRet(op, of, callbacks, since) ==
    [op |-> op, of |-> of, callbacks |-> callbacks, since |-> since]

NoCallbacks == SharedValidation("none", "none")

\* RegisterValidationInterface(pwalletIn): Register is given a copy of *pwalletIn, at
\* an address no live object has
RegisterValidationInterface ==
    \E pwalletIn \in Interfaces : \E addr \in Addresses \ Pointers(m_list) :
    \E r \in {Register(m_list, m_map, SharedValidation(addr, pwalletIn))} :
        /\ m_list' = r.list
        /\ m_map' = r.map
        /\ unregistered' = unregistered \ {pwalletIn}
        /\ ret' = SignalRet("RegisterValidationInterface", pwalletIn,
                            SharedValidation(addr, pwalletIn), {})
        /\ UNCHANGED <<executing, managerVars>>

\* UnregisterValidationInterface(pwalletIn): Unregister is given pwalletIn itself
UnregisterValidationInterface ==
    \E pwalletIn \in Interfaces :
    \E r \in {Unregister(m_list, m_map, pwalletIn)} :
        /\ m_list' = r.list
        /\ m_map' = r.map
        /\ executing' = AfterErase(executing, r.list)
        /\ unregistered' = unregistered \cup {pwalletIn}
        /\ ret' = SignalRet("UnregisterValidationInterface", pwalletIn, NoCallbacks, {})
        /\ UNCHANGED managerVars

\* UnregisterAllValidationInterfaces()
UnregisterAllValidationInterfaces ==
    \E r \in {Clear(m_list, m_map)} :
        /\ m_list' = r.list
        /\ m_map' = r.map
        /\ executing' = AfterErase(executing, r.list)
        /\ unregistered' = unregistered
        /\ ret' = SignalRet("UnregisterAllValidationInterfaces", "none", NoCallbacks, {})
        /\ UNCHANGED managerVars

\* thread t with its iterator at position i of list: ++it->count, and f(*it->callbacks)
\* begins with m_mutex released; at m_list.end() the loop is over
Enter(t, list, i, since) ==
    IF i \in DOMAIN list
    THEN /\ m_list' = [list EXCEPT ![i].count = @ + 1]
         /\ executing' = [AfterErase(executing, list) EXCEPT
                              ![t] = Iterating(list[i].callbacks.addr, since)]
         /\ ret' = SignalRet("Callback", list[i].callbacks.of, list[i].callbacks, since)
    ELSE /\ m_list' = list
         /\ executing' = [AfterErase(executing, list) EXCEPT ![t] = NotIterating]
         /\ ret' = SignalRet("Iterated", "none", NoCallbacks, since)

\* MainSignalsInstance::Iterate, from WAIT_LOCK to the first call of f: a signal of
\* CMainSignals is dispatched by thread t
IterateBegin ==
    \E t \in Threads :
        /\ executing[t] = NotIterating
        /\ Enter(t, m_list, 1, unregistered)
        /\ UNCHANGED <<m_map, unregistered, managerVars>>

\* MainSignalsInstance::Iterate, from the return of f to the next call of f or to the
\* end of the loop.  --it->count through an iterator to an erased entry is undefined:
\* the thread stops, or its loop ends, or it goes on at any entry of the list.
IterateNext ==
    \E t \in Threads :
        /\ executing[t].it \in Addresses \cup {Erased}
        /\ IF executing[t].it \in Pointers(m_list)
           THEN \E r \in {Release(m_list, EntryAt(m_list, executing[t].it))} :
                    Enter(t, r.list, r.next, executing[t].since)
           ELSE \/ /\ executing' = [executing EXCEPT
                                       ![t] = Iterating(Crashed, executing[t].since)]
                   /\ ret' = SignalRet("Crashed", "none", NoCallbacks, executing[t].since)
                   /\ UNCHANGED m_list
                \/ \E i \in 1..(Len(m_list) + 1) :
                       Enter(t, m_list, i, executing[t].since)
        /\ UNCHANGED <<m_map, unregistered, managerVars>>

\* the scheduler is registered and no interface is
InitSignals ==
    /\ mapProposals = EmptyMap
    /\ mapSeenProposals = {}
    /\ vecImmatureProposals = <<>>
    /\ mapFinalizedBudgets = EmptyMap
    /\ mapSeenFinalizedBudgets = {}
    /\ vecImmatureFinalizedBudgets = <<>>
    /\ IdleVotes /\ IdleSubmit /\ IdleChain /\ IdleHist /\ IdlePeer /\ IdleThreads
    /\ IdleSignals
    /\ nBestHeight = 0
    /\ now = 0
    /\ mnCount = NumMasternodes
    /\ mnKnown = Masternodes
    /\ fSynced = TRUE
    /\ ret = NoRet

NextSignals ==
    \/ RegisterValidationInterface
    \/ UnregisterValidationInterface
    \/ UnregisterAllValidationInterfaces
    \/ IterateBegin
    \/ IterateNext

SpecSignals == InitSignals /\ [][NextSignals]_vars


\* the threads in a callback of the entry at address addr
ExecutingAt(addr) == {t \in Threads : executing[t].it = addr}

\* C39: under any interleaving of Register, Unregister, Clear and Iterate, the count
\* of every entry of m_list is the number of its callbacks in execution plus 1 if
\* m_map points to it, no entry of m_list has count 0, and no entry is erased while a
\* callback of it is executing.
CountIsExecutionsPlusRegistered ==
    /\ \A i \in DOMAIN m_list :
          /\ m_list[i].count =
                Cardinality(ExecutingAt(m_list[i].callbacks.addr))
                    + (IF m_list[i].callbacks.addr \in m_map THEN 1 ELSE 0)
          /\ m_list[i].count # 0
    /\ \A t \in Threads : executing[t].it # Erased

\* what holds of the counts: every entry m_map points to is in m_list, and no entry
\* has a count below 1
RegisteredAreListed ==
    /\ m_map \subseteq Pointers(m_list)
    /\ \A i \in DOMAIN m_list : m_list[i].count >= 1

\* the count of every entry is the number of its executions plus 1 if m_map points to it
CountEquation ==
    \A i \in DOMAIN m_list :
        m_list[i].count =
            Cardinality(ExecutingAt(m_list[i].callbacks.addr))
                + (IF m_list[i].callbacks.addr \in m_map THEN 1 ELSE 0)

\* every call but UnregisterAllValidationInterfaces keeps the counts right
OnlyClearBreaksCount ==
    [][CountEquation /\ ret'.op # "UnregisterAllValidationInterfaces" => CountEquation']_vars

\* C40: after RegisterValidationInterface(p) followed by UnregisterValidationInterface(p),
\* no signal dispatched after the unregistration returned invokes the callbacks
\* registered for p, and m_map has no entry for them.
UnregisteredIsGone ==
    /\ ret.op = "Callback" => ret.of \notin (unregistered \cap ret.since)
    /\ \A i \in DOMAIN m_list :
          m_list[i].callbacks.of \in unregistered => m_list[i].callbacks.addr \notin m_map

\* what UnregisterValidationInterface does to the registry: nothing
UnregisterChangesNothing ==
    [][ret'.op = "UnregisterValidationInterface" => UNCHANGED <<m_list, m_map>>]_vars

=============================================================================
